---- MODULE Spec2Model ----
(***************************************************************************)
(* A model of the TLDRist pipeline: Orchestrator.run (intake, threshold    *)
(* check, concurrent fan-out over the eligible tasks, aggregation,         *)
(* truncation, podcast and web page, digest composition), the per-task     *)
(* coroutine _process_task / _process_arxiv_task, ArticleFetcher (fetch,   *)
(* _fetch_html, _extract_content, fetch_arxiv), SummarizerService          *)
(* (summarize_arxiv, _extract_figure_image and its two strategies) and     *)
(* GeminiClient.identify_important_figure.                                 *)
(*                                                                         *)
(* Conventions.                                                            *)
(*  - Optional[T] is a sequence of length <= 1: None is <<>>, a value x is *)
(*    <<x>>.                                                               *)
(*  - A Python string built by an f-string is the sequence of its parts:   *)
(*    f"HTTP {status}" is <<"HTTP ", "403">>; str concatenation is \o.     *)
(*  - The outcome of a call is [tag |-> "return", val |-> v] or            *)
(*    [tag |-> "raise", val |-> e] with e an exception record.             *)
(*  - A text (article content) is [words |-> n]: n is len(text.split());   *)
(*    the empty string is the text with 0 words.                           *)
(***************************************************************************)
EXTENDS Integers, Sequences, FiniteSets, TLC

\* ------------------------------------------------------------------ bounds

\* Largest number of tasks the Todoist project holds.
MaxTasks == 2

\* margin = 20 in _get_clip_rect_from_caption.
Margin == 20

\* The gap left above the caption: caption_rect.y0 - 5.
CaptionGap == 5

\* The value of `min` when the caller configures one.
MinReq == 2

\* Largest value of `max` the caller passes (the smallest is -1).
MaxMax == 1

\* Largest number of images enumerated on a page.
MaxImages == 2

\* The number of pages of a PDF that has pages.
MaxPages == 3

\* Largest number of lines of a reply to the figure prompt.
MaxLines == 3

\* --------------------------------------------------------- program constants

\* Article.is_valid and _extract_content: the minimum number of words.
MinWords == 50

\* ------------------------------------------------------------ basic values

None == <<>>

Some(x) == <<x>>

IsNone(o) == o = <<>>

Val(o) == o[1]

Return(v) == [tag |-> "return", val |-> v]

Raise(e) == [tag |-> "raise", val |-> e]

Min2(a, b) == IF a <= b THEN a ELSE b

\* Python's seq[:k] for any integer k (a negative k counts from the end).
SliceTo(seq, k) ==
    IF k >= 0 THEN SubSeq(seq, 1, Min2(k, Len(seq)))
    ELSE IF Len(seq) + k > 0 THEN SubSeq(seq, 1, Len(seq) + k)
    ELSE <<>>

\* ------------------------------------------------------------------- URLs

\* The URL of task n on a site. "web" is an ordinary page, "arxiv_abs" is
\* https://arxiv.org/abs/<id>, "arxiv_pdf" is https://arxiv.org/pdf/<id>.
Url(site, n) == [site |-> site, key |-> n]

\* The empty string, where a URL is expected.
EmptyUrl == [site |-> "", key |-> 0]

ARXIV_ABS_PATTERN(url) == IF url.site = "arxiv_abs" THEN Some(url.key) ELSE None

ARXIV_PDF_PATTERN(url) == IF url.site = "arxiv_pdf" THEN Some(url.key) ELSE None

is_arxiv_url(url) ==
    ~IsNone(ARXIV_ABS_PATTERN(url)) \/ ~IsNone(ARXIV_PDF_PATTERN(url))

arxiv_url_to_pdf_url(url) ==
    IF ~IsNone(ARXIV_ABS_PATTERN(url)) THEN Url("arxiv_pdf_file", Val(ARXIV_ABS_PATTERN(url)))
    ELSE IF ~IsNone(ARXIV_PDF_PATTERN(url)) THEN Url("arxiv_pdf_file", Val(ARXIV_PDF_PATTERN(url)))
    ELSE url

TodoistTask(n, url) == [id |-> n, url |-> url]

\* -------------------------------------------------------------- exceptions

\* The classes an exception class derives from (itself included).
Bases(cls) ==
    CASE cls = "ReadTimeout"     -> {"ReadTimeout", "TimeoutException", "TransportError",
                                     "RequestError", "HTTPError", "Exception"}
      [] cls = "ConnectError"    -> {"ConnectError", "NetworkError", "TransportError",
                                     "RequestError", "HTTPError", "Exception"}
      [] cls = "HTTPStatusError" -> {"HTTPStatusError", "HTTPError", "Exception"}
      [] cls = "FetchError"      -> {"FetchError", "Exception"}
      [] OTHER                   -> {cls, "Exception"}

IsInstance(e, cls) == cls \in Bases(e.cls)

Exc(cls, msg) == [cls |-> cls, msg |-> msg]

\* str(e)
Str(e) == e.msg

FetchError(reason) == [cls |-> "FetchError", msg |-> reason, reason |-> reason]

StatusText(status) ==
    CASE status = 200 -> "200"
      [] status = 204 -> "204"
      [] status = 304 -> "304"
      [] status = 403 -> "403"
      [] status = 404 -> "404"
      [] status = 500 -> "500"

HTTPStatusError(status) ==
    [cls |-> "HTTPStatusError", msg |-> <<"status ", StatusText(status)>>, status |-> status]

\* httpx.Response.raise_for_status: a response outside 2xx raises.
raise_for_status(response) ==
    IF response.status >= 200 /\ response.status <= 299
    THEN Return(response)
    ELSE Raise(HTTPStatusError(response.status))

\* ---------------------------------------------------------- ArticleFetcher

\* A title: a literal text, or f"arXiv:{arxiv_id}" (text "arXiv:" and the id).
Title(text, n) == [text |-> text, id |-> n]

EmptyTitle == Title("", 0)

\* A text of n whitespace-separated words.
Text(n) == [words |-> n]

\* len(content.split())
SplitLen(text) == text.words

\* Truth value of an Optional[str]: None and "" are false.
Truthy(otext) == ~IsNone(otext) /\ SplitLen(Val(otext)) > 0

Article(url, title, content, word_count) ==
    [type |-> "Article", url |-> url, title |-> title, content |-> content,
     word_count |-> word_count]

\* is_valid with a strict comparison.
is_valid_Strict(article) == article.word_count > MinWords

is_valid(article) == article.word_count >= MinWords

ArxivContent(url, pdf_url, title, pdf_bytes) ==
    [type |-> "ArxivContent", url |-> url, pdf_url |-> pdf_url, title |-> title,
     pdf_bytes |-> pdf_bytes]

\* _fetch_html with the RequestError clause before the TimeoutException clause.
_fetch_html_RequestFirst(url, http) ==
    LET got == IF http.tag = "raise" THEN http ELSE raise_for_status(http.val)
    IN  IF got.tag = "return" THEN Return(got.val.page)
        ELSE IF IsInstance(got.val, "HTTPStatusError")
             THEN Raise(FetchError(<<"HTTP ", StatusText(got.val.status)>>))
        ELSE IF IsInstance(got.val, "RequestError")
             THEN Raise(FetchError(<<"request error: ">> \o Str(got.val)))
        ELSE IF IsInstance(got.val, "TimeoutException")
             THEN Raise(FetchError(<<"timeout">>))
        ELSE got

\* _fetch_html. `http` is what self._client.get(url) does: it returns a
\* response [status, page] or raises.
_fetch_html(url, http) ==
    LET got == IF http.tag = "raise" THEN http ELSE raise_for_status(http.val)
    IN  IF got.tag = "return" THEN Return(got.val.page)
        ELSE IF IsInstance(got.val, "HTTPStatusError")
             THEN Raise(FetchError(<<"HTTP ", StatusText(got.val.status)>>))
        ELSE IF IsInstance(got.val, "TimeoutException")
             THEN Raise(FetchError(<<"timeout">>))
        ELSE IF IsInstance(got.val, "RequestError")
             THEN Raise(FetchError(<<"request error: ">> \o Str(got.val)))
        ELSE got

\* _extract_with_readability with the document's title put first.
_extract_with_readability_DocFirst(page, fallback_title) ==
    IF page.readability.tag = "raise"
    THEN <<Text(0), fallback_title>>
    ELSE LET doc == page.readability.val
         IN  << IF Truthy(doc.summary) THEN Val(doc.summary) ELSE Text(0),
                IF doc.title # EmptyTitle THEN doc.title ELSE fallback_title >>

\* _extract_with_readability. page.readability is what Document(html),
\* doc.title() and sanitize(doc.summary()) do: [title, summary] or an exception.
\* Returns <<content, title>>.
_extract_with_readability(page, fallback_title) ==
    IF page.readability.tag = "raise"
    THEN <<Text(0), fallback_title>>
    ELSE LET doc == page.readability.val
         IN  << IF Truthy(doc.summary) THEN Val(doc.summary) ELSE Text(0),
                IF fallback_title # EmptyTitle THEN fallback_title ELSE doc.title >>

\* _extract_content. page.meta_title is metadata.title (None when there is no
\* metadata or no title), page.primary is what trafilatura.extract returns.
_extract_content(url, page) ==
    LET title0   == IF ~IsNone(page.meta_title) /\ Val(page.meta_title) # EmptyTitle
                    THEN Val(page.meta_title) ELSE EmptyTitle
        fallback == ~Truthy(page.primary) \/ SplitLen(Val(page.primary)) < MinWords
        second   == _extract_with_readability(page, title0)
        content  == IF fallback THEN Some(second[1]) ELSE page.primary
        title    == IF fallback THEN second[2] ELSE title0
    IN  IF ~Truthy(content) THEN None
        ELSE LET word_count == SplitLen(Val(content))
             IN  IF word_count < MinWords THEN None
                 ELSE Some(Article(url, title, Val(content), word_count))

\* ArticleFetcher.fetch
fetch(url, http) ==
    LET html == _fetch_html(url, http)
    IN  IF html.tag = "raise" THEN html
        ELSE LET article == _extract_content(url, html.val)
             IN  IF ~IsNone(article) /\ is_valid(Val(article))
                 THEN Return(Val(article))
                 ELSE Raise(FetchError(<<"content extraction failed">>))

\* `part in text`, for a text given as the sequence of its parts ("" is <<>>).
Contains(text, part) == \E k \in DOMAIN text : text[k] = part

\* The except clauses of fetch_arxiv without the HTTPStatusError clause.
fetch_arxiv_except_NoStatus(e) ==
    IF IsInstance(e, "FetchError") THEN Raise(e)
    ELSE IF IsInstance(e, "TimeoutException") THEN Raise(FetchError(<<"timeout">>))
    ELSE IF IsInstance(e, "RequestError")
         THEN Raise(FetchError(<<"request error: ">> \o Str(e)))
    ELSE IF IsInstance(e, "Exception") THEN Raise(FetchError(Str(e)))
    ELSE Raise(e)

\* The except clauses of fetch_arxiv, applied to what its try block raised.
fetch_arxiv_except(e) ==
    IF IsInstance(e, "FetchError") THEN Raise(e)
    ELSE IF IsInstance(e, "HTTPStatusError")
         THEN Raise(FetchError(<<"HTTP ", StatusText(e.status)>>))
    ELSE IF IsInstance(e, "TimeoutException") THEN Raise(FetchError(<<"timeout">>))
    ELSE IF IsInstance(e, "RequestError")
         THEN Raise(FetchError(<<"request error: ">> \o Str(e)))
    ELSE IF IsInstance(e, "Exception") THEN Raise(FetchError(Str(e)))
    ELSE Raise(e)

\* ArticleFetcher.fetch_arxiv. net.abs is what the GET of the abstract page
\* does (a response [status, meta_title] or an exception), net.pdf what the
\* GET of the PDF does (a response [status, content_type] or an exception);
\* content_type is headers.get("content-type", ""), as the sequence of its
\* parts.
fetch_arxiv(url, net) ==
    LET pdf_url  == arxiv_url_to_pdf_url(url)
        abs_m    == ARXIV_ABS_PATTERN(url)
        match    == IF ~IsNone(abs_m) THEN abs_m ELSE ARXIV_PDF_PATTERN(url)
        abs_resp == IF net.abs.tag = "raise" THEN net.abs ELSE raise_for_status(net.abs.val)
        titled   == IF IsNone(match) THEN Return(Title("arXiv Paper", 0))
                    ELSE IF abs_resp.tag = "raise" THEN abs_resp
                    ELSE IF ~IsNone(abs_resp.val.meta_title)
                            /\ Val(abs_resp.val.meta_title) # EmptyTitle
                         THEN Return(Val(abs_resp.val.meta_title))
                    ELSE Return(Title("arXiv:", Val(match)))
        pdf_resp == IF net.pdf.tag = "raise" THEN net.pdf ELSE raise_for_status(net.pdf.val)
    IN  IF titled.tag = "raise" THEN fetch_arxiv_except(titled.val)
        ELSE IF pdf_resp.tag = "raise" THEN fetch_arxiv_except(pdf_resp.val)
        ELSE IF ~Contains(pdf_resp.val.content_type, "application/pdf")
             THEN fetch_arxiv_except(FetchError(<<"response is not a PDF">>))
        ELSE Return(ArxivContent(url, pdf_url, titled.val, "pdf"))

\* ------------------------------------------------------ figure extraction

FigureInfo(figure_number, page_number, description, reason) ==
    [type |-> "FigureInfo", figure_number |-> figure_number, page_number |-> page_number,
     description |-> description, reason |-> reason]

\* Image bytes: of the embedded image enumerated k-th on the page ("embedded"),
\* or of a rendering of the page ("rendered", k = 0).
ImageBytes(source, k) == [source |-> source, xref |-> k]

\* The pair (None, None).
NoImage == <<None, None>>

\* The result of a locator call: the returned pair, and the strategies that
\* were called on the way.
Located(pair, calls) == [tag |-> "return", val |-> pair, calls |-> calls]

\* The loop keeping the last of the images of equal area.
RECURSIVE LargestLoop_LastTie(_, _, _)
LargestLoop_LastTie(images, k, acc) ==
    IF k > Len(images) THEN Return(acc)
    ELSE LET img == images[k]
         IN  IF img.extract = "raise"
             THEN Raise(Exc("ValueError", <<"not an image">>))
             ELSE IF img.extract = "ok" /\ img.width * img.height >= acc.largest_area
                     /\ img.width * img.height > 0
             THEN LargestLoop_LastTie(images, k + 1,
                      [largest_image |-> Some([ext |-> img.ext,
                                               image |-> ImageBytes("embedded", k)]),
                       largest_area |-> img.width * img.height])
             ELSE LargestLoop_LastTie(images, k + 1, acc)

\* The loop of _extract_largest_raster_image from the k-th enumerated image
\* on, with acc = [largest_image, largest_area]. images[k] is what
\* doc.extract_image(xref) does for that image: it raises, or returns a dict
\* that is empty (extract = "empty") or holds width, height and ext (the width
\* or height of a dict without that key is 0).
RECURSIVE LargestLoop(_, _, _)
LargestLoop(images, k, acc) ==
    IF k > Len(images) THEN Return(acc)
    ELSE LET img == images[k]
         IN  IF img.extract = "raise"
             THEN Raise(Exc("ValueError", <<"not an image">>))
             ELSE IF img.extract = "ok" /\ img.width * img.height > acc.largest_area
             THEN LargestLoop(images, k + 1,
                      [largest_image |-> Some([ext |-> img.ext,
                                               image |-> ImageBytes("embedded", k)]),
                       largest_area |-> img.width * img.height])
             ELSE LargestLoop(images, k + 1, acc)

\* SummarizerService._extract_largest_raster_image (Strategy A). `images` is
\* page.get_images(full=True). The mime type f"image/{ext}" is <<"image/", ext>>.
_extract_largest_raster_image(images) ==
    IF images = <<>> THEN Return(NoImage)
    ELSE LET found == LargestLoop(images, 1, [largest_image |-> None, largest_area |-> 0])
         IN  IF found.tag = "raise" THEN found
             ELSE IF ~IsNone(found.val.largest_image)
             THEN LET largest_image == Val(found.val.largest_image)
                  IN  Return(<<Some(largest_image.image),
                               Some(IF largest_image.ext # "jpeg"
                                    THEN <<"image/", largest_image.ext>>
                                    ELSE <<"image/", "jpeg">>)>>)
             ELSE Return(NoImage)

\* re.escape of a figure number given as the sequence of its characters'
\* groups: alphanumeric parts stay, "." becomes "\.".
re_escape(label) == [k \in DOMAIN label |-> IF label[k] = "." THEN "\\." ELSE label[k]]

\* The three strings _get_clip_rect_from_caption builds, in order.
CaptionPatterns(figure_number) ==
    << <<"Figure", "\\s*">> \o re_escape(figure_number) \o <<"[:\\.\\s]">>,
       <<"Fig", "\\.", "\\s*">> \o re_escape(figure_number) \o <<"[:\\.\\s]">>,
       <<"FIGURE", "\\s*">> \o re_escape(figure_number) \o <<"[:\\.\\s]">> >>

\* Upper and lower case are the same to the page's text search.
Lower(part) ==
    CASE part = "Figure" -> "figure"
      [] part = "FIGURE" -> "figure"
      [] part = "Fig"    -> "fig"
      [] OTHER           -> part

\* needle occurs in line, case ignored.
OccursIn(needle, line) ==
    \E off \in 0..(Len(line) - Len(needle)) :
        \A k \in 1..Len(needle) : Lower(line[off + k]) = Lower(needle[k])

\* page.search_for(needle, quads=False): the lines of the page on which the
\* text `needle` occurs. The search is for the needle's characters as they
\* are: it knows no regular expressions.
search_for(page, needle) ==
    SelectSeq(page.text, LAMBDA line : needle # <<>> /\ OccursIn(needle, line))

\* The first pattern, from the k-th on, that the page's search finds.
RECURSIVE FirstInstances(_, _, _)
FirstInstances(page, patterns, k) ==
    IF k > Len(patterns) THEN <<>>
    ELSE LET text_instances == search_for(page, patterns[k])
         IN  IF text_instances # <<>> THEN text_instances
             ELSE FirstInstances(page, patterns, k + 1)

\* fitz.Rect(x0, y0, x1, y1); its height is y1 - y0.
Rect(x0, y0, x1, y1) == [x0 |-> x0, y0 |-> y0, x1 |-> x1, y1 |-> y1]

Max2(a, b) == IF a >= b THEN a ELSE b

\* The region estimated without clamping its top to the page.
EstimateRegion_Unclamped(page_rect, caption_rect) ==
    LET height == page_rect.y1 - page_rect.y0
    IN  Rect(page_rect.x0 + Margin,
             caption_rect.y0 - (2 * height) \div 5,
             page_rect.x1 - Margin,
             caption_rect.y0 - CaptionGap)

\* The figure region _get_clip_rect_from_caption estimates above a caption:
\* figure_top = max(page_rect.y0, caption_rect.y0 - page_rect.height * 0.4),
\* figure_bottom = caption_rect.y0 - 5, the page's width less the margins.
\* Coordinates are whole points and page heights multiples of 5, so that
\* height * 0.4 is (2 * height) \div 5.
EstimateRegion(page_rect, caption_rect) ==
    LET height        == page_rect.y1 - page_rect.y0
        figure_top    == Max2(page_rect.y0, caption_rect.y0 - (2 * height) \div 5)
        figure_bottom == caption_rect.y0 - CaptionGap
    IN  Rect(page_rect.x0 + Margin, figure_top, page_rect.x1 - Margin, figure_bottom)

\* SummarizerService._get_clip_rect_from_caption: the region above the first
\* match, or None.
_get_clip_rect_from_caption(page, figure_number) ==
    LET text_instances == FirstInstances(page, CaptionPatterns(figure_number), 1)
    IN  IF text_instances = <<>> THEN None
        ELSE Some([above |-> text_instances[1]])

\* SummarizerService._render_clip_region. page.render is what
\* page.get_pixmap(...).tobytes("png") does.
_render_clip_region(page, clip_rect) ==
    IF page.render.tag = "raise" THEN None ELSE Some(ImageBytes("rendered", 0))

\* The range test with the page after the last one let through.
PageOutOfRange_Inclusive(page_idx, page_count) == page_idx < 0 \/ page_idx > page_count

\* page_idx < 0 or page_idx >= len(doc)
PageOutOfRange(page_idx, page_count) == page_idx < 0 \/ page_idx >= page_count

\* SummarizerService._extract_figure_image. pdf.opens tells whether
\* fitz.open reads the bytes, pdf.page_count is len(doc), pdf.page is doc's
\* page at the hint's page number.
_extract_figure_image(pdf, figure_info) ==
    IF IsNone(figure_info.page_number) THEN Located(NoImage, <<>>)
    ELSE IF ~pdf.opens THEN Located(NoImage, <<>>)
    ELSE LET page_idx == Val(figure_info.page_number) - 1
         IN  IF PageOutOfRange(page_idx, pdf.page_count) THEN Located(NoImage, <<>>)
             ELSE LET page   == pdf.page
                      result == _extract_largest_raster_image(page.images)
                  IN  IF result.tag = "raise" THEN Located(NoImage, <<"A">>)
                      ELSE IF ~IsNone(result.val[1]) THEN Located(result.val, <<"A">>)
                      ELSE IF IsNone(figure_info.figure_number)
                              \/ Val(figure_info.figure_number) = <<>>
                      THEN Located(NoImage, <<"A">>)
                      ELSE LET clip_rect ==
                                   _get_clip_rect_from_caption(page, Val(figure_info.figure_number))
                               image_bytes ==
                                   IF IsNone(clip_rect) THEN None
                                   ELSE _render_clip_region(page, Val(clip_rect))
                           IN  IF ~IsNone(image_bytes)
                               THEN Located(<<image_bytes, Some(<<"image/", "png">>)>>,
                                            <<"A", "B">>)
                               ELSE Located(NoImage, <<"A", "B">>)

\* ------------------------------------------------------------ GeminiClient

\* A reply text is the sequence of its lines. A line is blank, a code fence
\* "```" ("fence") or "```json" ("fence_lang"), a JSON object ("object", with
\* the object in .obj), the first or the second half of a JSON object written
\* over two lines ("open", "close"), a JSON array ("array"), a fenced object
\* on one line ("fenced_object"), or other text ("junk").
Line(kind, obj) == [kind |-> kind, obj |-> obj]

\* A JSON object: the keys it has and their values (null is None).
JsonObject(keys, figure_number, page_number, description, reason) ==
    [keys |-> keys, figure_number |-> figure_number, page_number |-> page_number,
     description |-> description, reason |-> reason]

EmptyObject == JsonObject({}, None, None, None, None)

\* The object of the prompt's example, also the one "open" and "close" spell.
ExampleObject ==
    JsonObject({"figure_number", "page_number", "description", "reason"},
               Some(<<"2">>), Some(1), Some(<<"The architecture">>), Some(<<"Key result">>))

\* str.strip(): leading and trailing whitespace goes, blank lines included.
RECURSIVE strip(_)
strip(lines) ==
    IF lines = <<>> THEN lines
    ELSE IF Head(lines).kind = "blank" THEN strip(Tail(lines))
    ELSE IF lines[Len(lines)].kind = "blank" THEN strip(SubSeq(lines, 1, Len(lines) - 1))
    ELSE lines

\* response_text.startswith("```")
startswith_fence(lines) ==
    lines # <<>> /\ Head(lines).kind \in {"fence", "fence_lang", "fenced_object"}

\* "\n".join(lines[1:-1]) if len(lines) > 2 else response_text
unwrap(lines) ==
    IF Len(lines) > 2 THEN SubSeq(lines, 2, Len(lines) - 1) ELSE lines

\* json.loads: whitespace between tokens is ignored; the text must be one
\* JSON value.
json_loads(lines) ==
    LET tokens == SelectSeq(lines, LAMBDA l : l.kind # "blank")
    IN  IF Len(tokens) = 1 /\ tokens[1].kind = "object"
        THEN Return([type |-> "dict", obj |-> tokens[1].obj])
        ELSE IF Len(tokens) = 2 /\ tokens[1].kind = "open" /\ tokens[2].kind = "close"
        THEN Return([type |-> "dict", obj |-> ExampleObject])
        ELSE IF Len(tokens) = 1 /\ tokens[1].kind = "array"
        THEN Return([type |-> "list", obj |-> EmptyObject])
        ELSE Raise(Exc("JSONDecodeError", <<"Expecting value">>))

\* dict.get(key)
get(obj, key) == IF key \in obj.keys THEN obj[key] ELSE None

\* identify_important_figure with only the JSONDecodeError clause.
identify_important_figure_OnlyDecodeError(gen) ==
    IF gen.tag = "raise" THEN gen
    ELSE LET response_text == strip(gen.val)
             body == IF startswith_fence(response_text) THEN unwrap(response_text)
                     ELSE response_text
             data == json_loads(body)
         IN  IF data.tag = "raise" THEN Return(None)
             ELSE IF data.val.type # "dict"
             THEN Raise(Exc("AttributeError", <<"'list' object has no attribute 'get'">>))
             ELSE Return(Some(FigureInfo(get(data.val.obj, "figure_number"),
                                         get(data.val.obj, "page_number"),
                                         get(data.val.obj, "description"),
                                         get(data.val.obj, "reason"))))

\* GeminiClient.identify_important_figure, from the try block on. `gen` is
\* what model.generate_content_async and response.text do: the reply's lines,
\* or an exception. A value that is not a dict has no .get (AttributeError,
\* caught by the last clause).
identify_important_figure(gen) ==
    IF gen.tag = "raise" THEN Return(None)
    ELSE LET response_text == strip(gen.val)
             body == IF startswith_fence(response_text) THEN unwrap(response_text)
                     ELSE response_text
             data == json_loads(body)
         IN  IF data.tag = "raise" THEN Return(None)
             ELSE IF data.val.type # "dict" THEN Return(None)
             ELSE Return(Some(FigureInfo(get(data.val.obj, "figure_number"),
                                         get(data.val.obj, "page_number"),
                                         get(data.val.obj, "description"),
                                         get(data.val.obj, "reason"))))

\* -------------------------------------------------------- SummarizerService

ProcessedArticle(task_id, url, title, summary) ==
    [type |-> "ProcessedArticle", task_id |-> task_id, url |-> url, title |-> title,
     summary |-> summary, image_data |-> None, image_mime_type |-> None,
     image_caption |-> None]

FailedArticle(url, reason) == [type |-> "FailedArticle", url |-> url, reason |-> reason]

\* SummarizerService.summarize. `gen` is what gemini.summarize_article does.
summarize(task_id, article, gen) ==
    IF gen.tag = "raise" THEN gen
    ELSE Return(ProcessedArticle(task_id, article.url, article.title, gen.val))

\* Truth value of an Optional[str] given as the sequence of its parts.
StrTruthy(ostr) == ~IsNone(ostr) /\ Val(ostr) # <<>>

\* The call of _extract_figure_image that summarize_arxiv makes, if it makes
\* one: identify_important_figure returned a FigureInfo with a page number.
FigureAttempt(figure) ==
    IF figure.identify.tag = "return" /\ ~IsNone(figure.identify.val)
       /\ ~IsNone(Val(figure.identify.val).page_number)
    THEN Some(_extract_figure_image(figure.pdf, Val(figure.identify.val)))
    ELSE None

\* summarize_arxiv without the try/except around the figure steps.
summarize_arxiv_NoTry(task_id, arxiv_content, gen, figure) ==
    IF gen.tag = "raise" THEN gen
    ELSE IF figure.identify.tag = "raise" THEN figure.identify
    ELSE Return(ProcessedArticle(task_id, arxiv_content.url, arxiv_content.title, gen.val))

\* summarize_arxiv taking the caption from the description alone, without
\* the test of image_data.
summarize_arxiv_CaptionAlways(task_id, arxiv_content, gen, figure) ==
    IF gen.tag = "raise" THEN gen
    ELSE LET figure_info == figure.identify
             attempted   == ~IsNone(FigureAttempt(figure))
             extracted   == IF attempted THEN Val(FigureAttempt(figure)).val ELSE NoImage
             image_caption == IF attempted /\ StrTruthy(Val(figure_info.val).description)
                              THEN Val(figure_info.val).description ELSE None
         IN  Return([ProcessedArticle(task_id, arxiv_content.url, arxiv_content.title,
                                      gen.val)
                        EXCEPT !.image_data = extracted[1],
                               !.image_mime_type = extracted[2],
                               !.image_caption = image_caption])

\* SummarizerService.summarize_arxiv. `gen` is what gemini.summarize_pdf does,
\* figure.identify what gemini.identify_important_figure does (it returns an
\* Optional FigureInfo, or raises), figure.pdf what fitz finds in the PDF.
summarize_arxiv(task_id, arxiv_content, gen, figure) ==
    IF gen.tag = "raise" THEN gen
    ELSE LET figure_info == figure.identify
             attempted   == ~IsNone(FigureAttempt(figure))
             extracted   == IF attempted THEN Val(FigureAttempt(figure)).val ELSE NoImage
             image_data      == extracted[1]
             image_mime_type == extracted[2]
             image_caption   == IF attempted /\ ~IsNone(image_data)
                                   /\ StrTruthy(Val(figure_info.val).description)
                                THEN Val(figure_info.val).description ELSE None
         IN  Return([ProcessedArticle(task_id, arxiv_content.url, arxiv_content.title,
                                      gen.val)
                        EXCEPT !.image_data = image_data,
                               !.image_mime_type = image_mime_type,
                               !.image_caption = image_caption])

\* ------------------------------------------------------------ DigestService

\* The number of positional parameters of DigestService.compose_digest after
\* self: articles, podcast_url, web_page_url.
ComposeDigestParams == 3

\* DigestService.compose_digest called with the positional arguments
\* `call_args`. Python binds the arguments before the body runs: more
\* arguments than parameters raise TypeError. `intro` is what
\* gemini.generate_digest_intro does (only asked for when there are articles).
compose_digest(call_args, intro) ==
    IF Len(call_args) > ComposeDigestParams
    THEN Raise(Exc("TypeError", <<"compose_digest() takes from 2 to 4 positional arguments">>))
    ELSE IF call_args[1] = <<>>
         THEN Return([subject |-> "tl;drist reading digest", articles |-> <<>>])
    ELSE IF intro.tag = "raise" THEN intro
    ELSE Return([subject |-> "tl;drist reading digest", articles |-> call_args[1]])

\* ------------------------------------------------------------ Orchestrator

OrchestrationResult(tasks_found, articles_processed, articles_failed, email_sent, dry_run, skipped) ==
    [tasks_found |-> tasks_found, articles_processed |-> articles_processed,
     articles_failed |-> articles_failed, tasks_updated |-> 0,
     tasks_update_failed |-> 0, tasks_closed |-> 0, tasks_close_failed |-> 0,
     email_sent |-> email_sent, dry_run |-> dry_run, skipped |-> skipped,
     podcast_url |-> None]

VARIABLES
    todoist,             \* the tasks of the Todoist project, in API order
    phase,               \* where Orchestrator.run is
    args,                \* run's arguments [dry_run, min, max]
    tasks_with_urls,     \* run's local: the eligible tasks
    co,                  \* co[i]: the coroutine processing task i
    done_order,          \* the task ids in the order their coroutines finished
    processed_articles,  \* run's local
    failed_articles,     \* run's local
    result,              \* Optional: what run returned
    run_error,           \* Optional: the exception run raised
    run_log,             \* the records run itself has logged, in order
    effects,             \* calls made on the collaborators
    self,                \* the orchestrator's optional collaborators
    podcast_url,         \* run's local (Optional)
    web_page_url,        \* run's local (Optional)
    call                 \* a function called on its own: [fn, input, out]

vars == <<todoist, phase, args, tasks_with_urls, co, done_order, processed_articles,
          failed_articles, result, run_error, run_log, effects, call, self,
          podcast_url, web_page_url>>

run_locals == <<args, tasks_with_urls, processed_articles, failed_articles, result,
                run_error, run_log, podcast_url, web_page_url>>

Ids == 1..MaxTasks

\* A coroutine that was not created.
NoCoroutine ==
    [pc |-> "none", entry |-> "", fetch_in |-> None, fetched |-> None, gen_in |-> None,
     fig_in |-> None, ret |-> None]

Created(entry) == [NoCoroutine EXCEPT !.pc = "created", !.entry = entry]

NoEffects ==
    [fetch |-> [i \in Ids |-> 0], summarize |-> [i \in Ids |-> 0], list_tasks |-> 0,
     compose |-> 0, email |-> 0, todoist_write |-> 0, file |-> 0, upload |-> 0,
     todoist_calls |-> <<>>]

\* Orchestrator.__init__: image_storage and tts_client are optional,
\* podcast_enabled defaults to True; self._podcast is built exactly when
\* podcast_enabled is.
Orchestrator(image_storage, tts_client, podcast_enabled) ==
    [storage |-> image_storage, tts_client |-> tts_client,
     podcast_enabled |-> podcast_enabled, podcast |-> podcast_enabled]

\* An orchestrator without optional collaborators.
Bare == Orchestrator(FALSE, FALSE, TRUE)

\* No function has been called on its own.
NoCall == [fn |-> "", input |-> <<>>, out |-> <<>>]

\* ------------------------------------------------------ what the world does

Statuses == {200, 204, 304, 403, 404, 500}

WordCounts == {0, MinWords - 1, MinWords}

MetaTitles == {None, Some(EmptyTitle), Some(Title("Meta", 0))}

Readabilities ==
    {Raise(Exc("ParserError", <<"document is empty">>))}
    \cup {Return([title |-> t, summary |-> s]) :
            t \in {EmptyTitle, Title("Doc", 0)},
            s \in {None} \cup {Some(Text(n)) : n \in WordCounts}}

Pages ==
    [meta_title : MetaTitles,
     primary : {None} \cup {Some(Text(n)) : n \in WordCounts},
     readability : Readabilities]

\* The body of a response whose body the code never reads.
NoPage ==
    [meta_title |-> None, primary |-> None,
     readability |-> Raise(Exc("ParserError", <<"document is empty">>))]

GoodPage ==
    [meta_title |-> Some(Title("Meta", 0)), primary |-> Some(Text(MinWords)),
     readability |-> Return([title |-> Title("Doc", 0), summary |-> None])]

ShortPage ==
    [meta_title |-> None, primary |-> Some(Text(MinWords - 1)),
     readability |-> Return([title |-> Title("Doc", 0),
                             summary |-> Some(Text(MinWords - 1))])]

TransportRaises ==
    {Raise(Exc("ReadTimeout", <<"timed out">>)),
     Raise(Exc("ConnectError", <<"connection refused">>)),
     Raise(Exc("InvalidURL", <<"invalid port">>))}

\* Everything a GET of an ordinary URL can do.
WebOutcomes ==
    {Return([status |-> s, page |-> p]) : s \in {200, 204}, p \in Pages}
    \cup {Return([status |-> s, page |-> NoPage]) : s \in Statuses \ {200, 204}}
    \cup TransportRaises

\* The GETs of an ordinary URL explored when a whole batch runs.
BatchWebOutcomes ==
    {Return([status |-> 200, page |-> GoodPage]),
     Return([status |-> 200, page |-> ShortPage]),
     Return([status |-> 403, page |-> NoPage]),
     Raise(Exc("InvalidURL", <<"invalid port">>))}

AbsOutcomes ==
    {Return([status |-> 200, meta_title |-> t]) : t \in {None, Some(Title("Paper", 0))}}
    \cup {Return([status |-> 404, meta_title |-> None])}
    \cup {Raise(Exc("ReadTimeout", <<"timed out">>))}

PdfOutcomes ==
    {Return([status |-> 200, content_type |-> c]) :
        c \in {<<"application/pdf">>, <<"application/pdf", "; charset=binary">>,
               <<"text/html">>, <<>>}}
    \cup {Return([status |-> 500, content_type |-> <<>>])}
    \cup {Raise(Exc("ConnectError", <<"connection refused">>))}

\* Everything the two GETs of fetch_arxiv can do.
ArxivOutcomes == [abs : AbsOutcomes, pdf : PdfOutcomes]

BatchArxivOutcomes ==
    {[abs |-> Return([status |-> 200, meta_title |-> None]),
      pdf |-> Return([status |-> 200, content_type |-> c])] :
        c \in {<<"application/pdf">>, <<"text/html">>}}

\* What a generation call does.
GenOutcomes == {Return("summary"), Raise(Exc("RuntimeError", <<"Gemini API error">>))}

\* What doc.extract_image does for an enumerated image.
ImageShapes ==
    {[extract |-> "ok", width |-> 1, height |-> 1, ext |-> "png"],
     [extract |-> "ok", width |-> 2, height |-> 1, ext |-> "jpeg"],
     [extract |-> "ok", width |-> 1, height |-> 2, ext |-> "png"],
     [extract |-> "ok", width |-> 0, height |-> 2, ext |-> "png"],
     [extract |-> "empty", width |-> 0, height |-> 0, ext |-> "png"],
     [extract |-> "raise", width |-> 0, height |-> 0, ext |-> "png"]}

\* What page.get_images(full=True) enumerates.
ImageLists == UNION {[1..n -> ImageShapes] : n \in 0..MaxImages}

\* Lines of text on a page: two captions, and a line that spells out the
\* first of the strings _get_clip_rect_from_caption searches for.
CaptionLine == <<"Figure", " ", "2", ":", " Overview">>

FigLine == <<"Fig", ".", " ", "2", ".">>

PatternLine == <<"FIGURE", "\\s*", "2", "[:\\.\\s]">>

PageTexts == {<<>>, <<CaptionLine>>, <<FigLine>>, <<PatternLine>>}

\* What rendering a region of a page does.
RenderOutcomes == {Return("png"), Raise(Exc("RuntimeError", <<"cannot render">>))}

PdfPages == [images : ImageLists, text : PageTexts, render : RenderOutcomes]

\* The PDFs a locator call reads: fitz.open reads the bytes or raises, and
\* the document has no page or MaxPages pages.
Pdfs == [opens : BOOLEAN, page_count : {0, MaxPages}, page : PdfPages]

\* The page numbers a hint carries.
HintPages == {None} \cup {Some(n) : n \in {-1, 0, 1, MaxPages, MaxPages + 1, 999}}

\* The figure numbers a hint carries: none, "", "2".
HintLabels == {None, Some(<<>>), Some(<<"2">>)}

FigureHints == {FigureInfo(f, n, None, None) : f \in HintLabels, n \in HintPages}

\* A page with one embedded image, and pages without one.
ImagePage ==
    [images |-> <<[extract |-> "ok", width |-> 2, height |-> 1, ext |-> "jpeg"]>>,
     text |-> <<>>, render |-> Return("png")]

TextPage(text, render) == [images |-> <<>>, text |-> text, render |-> render]

\* The PDFs read when a task is summarized.
TaskPdfs ==
    {[opens |-> FALSE, page_count |-> 0, page |-> TextPage(<<>>, Return("png"))]}
    \cup {[opens |-> TRUE, page_count |-> MaxPages, page |-> pg] :
            pg \in {ImagePage,
                    TextPage(<<PatternLine>>, Return("png")),
                    TextPage(<<PatternLine>>, Raise(Exc("RuntimeError", <<"cannot render">>))),
                    TextPage(<<CaptionLine>>, Return("png")),
                    [ImagePage EXCEPT !.images =
                        <<[extract |-> "raise", width |-> 0, height |-> 0, ext |-> "png"]>>]}}

\* What gemini.identify_important_figure does when a task is summarized.
IdentifyOutcomes ==
    {Raise(Exc("RuntimeError", <<"Gemini API error">>)), Return(None)}
    \cup {Return(Some(FigureInfo(f, n, d, None))) :
            f \in {None, Some(<<"2">>)},
            n \in {None, Some(1), Some(999)},
            d \in {None, Some(<<>>), Some(<<"The architecture">>)}}

\* Everything figure identification and extraction can do for one task.
FigureOutcomes == [identify : IdentifyOutcomes, pdf : TaskPdfs]

\* The figure outcomes explored when a whole batch runs: no figure, and the
\* embedded image of page 1.
BatchFigureOutcomes ==
    {[identify |-> Return(Some(FigureInfo(Some(<<"2">>), Some(1),
                                          Some(<<"The architecture">>), None))),
      pdf |-> [opens |-> TRUE, page_count |-> MaxPages, page |-> ImagePage]]}

\* The JSON objects a reply holds: the example, the "no figures" object with
\* its nulls, and an object without the keys.
ReplyObjects ==
    {ExampleObject,
     JsonObject({"figure_number", "page_number", "description", "reason"},
                None, None, None, Some(<<"No figures found">>)),
     EmptyObject}

ReplyLines ==
    {Line(k, EmptyObject) :
        k \in {"blank", "fence", "fence_lang", "open", "close", "array", "junk"}}
    \cup {Line(k, o) : k \in {"object", "fenced_object"}, o \in ReplyObjects}

\* What the generation call of identify_important_figure does: a reply of up
\* to MaxLines lines, or an exception.
ReplyOutcomes ==
    {Raise(Exc("RuntimeError", <<"Gemini API error">>)),
     Raise(Exc("ValueError", <<"response has no text">>))}
    \cup {Return(lines) : lines \in UNION {[1..n -> ReplyLines] : n \in 0..MaxLines}}

\* What sending the email does.
\* What podcast.generate_podcast does: it uploads the audio and returns its
\* URL, or the script generation or the speech synthesis fails before
\* anything is uploaded.
PodcastOutcomes == {Return("podcast_url"), Raise(Exc("RuntimeError", <<"Podcast audio synthesis failed">>))}

\* What an upload to object storage does.
UploadOutcomes == {Return("public_url"), Raise(Exc("GoogleCloudError", <<"upload failed">>))}

\* The ways an orchestrator is constructed.
Orchestrators ==
    {Bare, Orchestrator(TRUE, FALSE, TRUE), Orchestrator(TRUE, TRUE, TRUE),
     Orchestrator(TRUE, TRUE, FALSE)}

MailOutcomes == {Return("sent"), Raise(Exc("SMTPException", <<"connection closed">>))}

\* The task lists a project can hold: task n has id n and either no URL
\* (kind "none") or the URL of that task on one of the sites.
TaskLists(sites) ==
    UNION {{[n \in 1..len |->
                TodoistTask(n, IF kind[n] = "none" THEN None ELSE Some(Url(kind[n], n)))] :
                kind \in [1..len -> {"none"} \cup sites]} :
            len \in 0..MaxTasks}

OptUrls(n, sites) == {None} \cup {Some(Url(site, n)) : site \in sites}

MinValues == {None, Some(MinReq)}

MaxValues == {None} \cup {Some(k) : k \in -1..MaxMax}

\* ------------------------------------------------- the per-task coroutine

Finish(i, outcome) ==
    /\ co' = [co EXCEPT ![i].pc = "done", ![i].ret = Some(outcome)]
    /\ done_order' = Append(done_order, i)

\* The coroutine with the fetcher called before the URL is looked at.
Start_FetchFirst(i) ==
    /\ i \in DOMAIN todoist
    /\ co[i].pc = "created"
    /\ effects' = [effects EXCEPT !.fetch[i] = @ + 1]
    /\ LET task == todoist[i]
       IN  IF IsNone(task.url)
           THEN Finish(i, Return(FailedArticle(EmptyUrl, <<"no URL">>)))
           ELSE /\ co' = [co EXCEPT ![i].pc =
                            IF co[i].entry = "_process_arxiv_task" \/ is_arxiv_url(Val(task.url))
                            THEN "fetch_arxiv" ELSE "fetch"]
                /\ UNCHANGED done_order
    /\ UNCHANGED <<call, self, todoist, phase, run_locals>>

\* _process_task / _process_arxiv_task up to the first await: the check for a
\* missing URL, the routing of arXiv URLs and the call of the fetcher.
Start(i) ==
    /\ i \in DOMAIN todoist
    /\ co[i].pc = "created"
    /\ LET task == todoist[i]
       IN  IF IsNone(task.url)
           THEN /\ Finish(i, Return(FailedArticle(EmptyUrl, <<"no URL">>)))
                /\ UNCHANGED effects
           ELSE /\ co' = [co EXCEPT ![i].pc =
                            IF co[i].entry = "_process_arxiv_task" \/ is_arxiv_url(Val(task.url))
                            THEN "fetch_arxiv" ELSE "fetch"]
                /\ effects' = [effects EXCEPT !.fetch[i] = @ + 1]
                /\ UNCHANGED done_order
    /\ UNCHANGED <<call, self, todoist, phase, run_locals>>

\* What _process_task does with the outcome of the fetcher call: a FetchError
\* becomes a FailedArticle, any other exception leaves the coroutine, an
\* article goes to the summarizer.
AfterFetch(i, input, fetched, next_pc) ==
    /\ IF fetched.tag = "return"
       THEN /\ co' = [co EXCEPT ![i].pc = next_pc, ![i].fetch_in = Some(input),
                                ![i].fetched = Some(fetched.val)]
            /\ effects' = [effects EXCEPT !.summarize[i] = @ + 1]
            /\ UNCHANGED done_order
       ELSE /\ co' = [co EXCEPT ![i].pc = "done", ![i].fetch_in = Some(input),
                        ![i].ret = Some(
                            IF IsInstance(fetched.val, "FetchError")
                            THEN Return(FailedArticle(Val(todoist[i].url), fetched.val.reason))
                            ELSE fetched)]
            /\ done_order' = Append(done_order, i)
            /\ UNCHANGED effects
    /\ UNCHANGED <<call, self, todoist, phase, run_locals>>

\* await self._fetcher.fetch(task.url) completes.
FetchReturn(i, http) ==
    /\ i \in DOMAIN todoist
    /\ co[i].pc = "fetch"
    /\ AfterFetch(i, http, fetch(Val(todoist[i].url), http), "summarize")

\* await self._fetcher.fetch_arxiv(task.url) completes.
FetchArxivReturn(i, net) ==
    /\ i \in DOMAIN todoist
    /\ co[i].pc = "fetch_arxiv"
    /\ AfterFetch(i, net, fetch_arxiv(Val(todoist[i].url), net), "summarize_arxiv")

\* The coroutine without the try/except around the summarizer call.
AfterSummarize_Propagate(i, gen, figure, summarized) ==
    /\ co' = [co EXCEPT ![i].pc = "done", ![i].gen_in = Some(gen), ![i].fig_in = figure,
                         ![i].ret = Some(summarized)]
    /\ done_order' = Append(done_order, i)
    /\ UNCHANGED <<call, self, todoist, phase, run_locals, effects>>

\* What the coroutine does with the outcome of the summarizer call. `gen` and
\* `figure` (an Optional) are what the summarizer's collaborators did.
AfterSummarize(i, gen, figure, summarized) ==
    /\ co' = [co EXCEPT ![i].pc = "done", ![i].gen_in = Some(gen), ![i].fig_in = figure,
                ![i].ret = Some(
                    IF summarized.tag = "return" THEN summarized
                    ELSE IF IsInstance(summarized.val, "Exception")
                    THEN Return(FailedArticle(Val(todoist[i].url),
                                    <<"summarization failed: ">> \o Str(summarized.val)))
                    ELSE summarized)]
    /\ done_order' = Append(done_order, i)
    /\ UNCHANGED <<call, self, todoist, phase, run_locals, effects>>

\* await self._summarizer.summarize(task.id, article) completes.
SummarizeReturn(i, gen) ==
    /\ i \in DOMAIN todoist
    /\ co[i].pc = "summarize"
    /\ AfterSummarize(i, gen, None, summarize(todoist[i].id, Val(co[i].fetched), gen))

\* await self._summarizer.summarize_arxiv(task.id, arxiv_content) completes.
SummarizeArxivReturn(i, gen, figure) ==
    /\ i \in DOMAIN todoist
    /\ co[i].pc = "summarize_arxiv"
    /\ AfterSummarize(i, gen, Some(figure),
                      summarize_arxiv(todoist[i].id, Val(co[i].fetched), gen, figure))

\* --------------------------------------------------------- Orchestrator.run

\* isinstance(result, BaseException), for an element of gather's result list.
IsException(v) == "cls" \in DOMAIN v

\* The coroutines of the eligible tasks, in the order of tasks_with_urls.
Coroutines == [k \in 1..Len(tasks_with_urls) |-> co[tasks_with_urls[k].id]]

\* gather without return_exceptions: the first exception that left a
\* coroutine is raised to the caller.
gather_fail_fast(coroutines) ==
    IF \E k \in 1..Len(coroutines) : Val(coroutines[k].ret).tag = "raise"
    THEN LET k == CHOOSE j \in 1..Len(coroutines) :
                    /\ Val(coroutines[j].ret).tag = "raise"
                    /\ \A h \in 1..(j - 1) : Val(coroutines[h].ret).tag = "return"
         IN  Raise(Val(coroutines[k].ret).val)
    ELSE Return([k \in 1..Len(coroutines) |-> Val(coroutines[k].ret).val])

\* The results in the order the coroutines finished, as asyncio.as_completed
\* yields them.
gather_as_completed(coroutines) ==
    Return([k \in 1..Len(coroutines) |-> Val(co[done_order[k]].ret).val])

\* asyncio.gather(*coroutines, return_exceptions=True), once every coroutine
\* is done: the list of their results in the order the coroutines were given,
\* an exception that left a coroutine being that coroutine's result.
gather(coroutines) ==
    Return([k \in 1..Len(coroutines) |-> Val(coroutines[k].ret).val])

\* task.url or ""
UrlOrEmpty(task) == IF IsNone(task.url) THEN EmptyUrl ELSE Val(task.url)

\* The loop without its isinstance(result, BaseException) branch: an
\* exception is neither a FailedArticle nor a ProcessedArticle.
RECURSIVE Partition_DropExceptions(_, _, _)
Partition_DropExceptions(tasks, results, acc) ==
    IF tasks = <<>> \/ results = <<>> THEN acc
    ELSE LET r    == Head(results)
             next == IF IsException(r) THEN acc
                     ELSE IF r.type = "FailedArticle"
                     THEN [acc EXCEPT !.failed = Append(@, r)]
                     ELSE [acc EXCEPT !.processed = Append(@, r)]
         IN  Partition_DropExceptions(Tail(tasks), Tail(results), next)

\* The loop over zip(tasks_with_urls, results), continued from `acc` =
\* [processed, failed, log]: the two lists and the errors logged so far.
RECURSIVE Partition(_, _, _)
Partition(tasks, results, acc) ==
    IF tasks = <<>> \/ results = <<>> THEN acc
    ELSE LET task == Head(tasks)
             r    == Head(results)
             next == IF IsException(r)
                     THEN [acc EXCEPT
                              !.log = Append(@, [msg |-> "Task processing failed",
                                                 task_id |-> task.id]),
                              !.failed = Append(@, FailedArticle(UrlOrEmpty(task), Str(r)))]
                     ELSE IF r.type = "FailedArticle"
                     THEN [acc EXCEPT !.failed = Append(@, r)]
                     ELSE IF r.type = "ProcessedArticle"
                     THEN [acc EXCEPT !.processed = Append(@, r)]
                     ELSE acc
         IN  Partition(Tail(tasks), Tail(results), next)

\* The values of `min`, `max` and `dry_run` a caller passes.
RunArgs == [dry_run : BOOLEAN, min : MinValues, max : MaxValues]

\* run is called: it logs and calls get_tasks.
RunCall(a) ==
    /\ phase = "idle"
    /\ phase' = "intake"
    /\ args' = a
    /\ run_log' = Append(run_log, [msg |-> "Starting orchestration"])
    /\ effects' = [effects EXCEPT !.list_tasks = @ + 1]
    /\ UNCHANGED <<call, self, podcast_url, web_page_url, todoist,
                   tasks_with_urls, co, done_order, processed_articles,
                   failed_articles, result, run_error>>

\* What self._todoist.get_tasks does: the project's tasks, or an HTTP error.
ListOutcomes == {Return(todoist), Raise(HTTPStatusError(500))}

\* Intake: get_tasks completes; the tasks with a URL are kept.
Intake(listing) ==
    /\ phase = "intake"
    /\ IF listing.tag = "raise"
       THEN /\ phase' = "raised"
            /\ run_error' = Some(listing.val)
            /\ UNCHANGED <<tasks_with_urls, run_log>>
       ELSE /\ phase' = "threshold"
            /\ tasks_with_urls' = SelectSeq(listing.val, LAMBDA t : ~IsNone(t.url))
            /\ run_log' = Append(run_log, [msg |-> "Found tasks with URLs",
                                            count |-> Len(tasks_with_urls')])
            /\ UNCHANGED run_error
    /\ UNCHANGED <<call, self, podcast_url, web_page_url, todoist,
                   args, co, done_order, processed_articles, failed_articles,
                   result, effects>>

\* The threshold applied only to a non-empty eligible set.
BelowMin_NonEmpty(found, min) == ~IsNone(min) /\ found > 0 /\ found < Val(min)

\* No threshold at all.
BelowMin_Never(found, min) == FALSE

\* The minimum threshold is not reached: len(tasks_with_urls) < min.
BelowMin(found, min) == ~IsNone(min) /\ found < Val(min)

\* Threshold-Check: skip the run, or take the empty-digest path, or create one
\* coroutine per eligible task and hand them to gather.
ThresholdCheck ==
    /\ phase = "threshold"
    /\ IF BelowMin(Len(tasks_with_urls), args.min)
       THEN /\ phase' = "done"
            /\ result' = Some(OrchestrationResult(Len(tasks_with_urls), 0, 0, FALSE,
                                                  args.dry_run, TRUE))
            /\ run_log' = Append(run_log, [msg |-> "Skipping workflow: not enough articles",
                                            found |-> Len(tasks_with_urls)])
            /\ UNCHANGED co
       ELSE IF tasks_with_urls = <<>>
       THEN /\ phase' = "empty"
            /\ run_log' = Append(run_log,
                    [msg |-> "No tasks with URLs found, sending empty digest"])
            /\ UNCHANGED <<result, co>>
       ELSE /\ phase' = "fanout"
            /\ co' = [i \in Ids |->
                        IF \E k \in 1..Len(tasks_with_urls) : tasks_with_urls[k].id = i
                        THEN Created("_process_task") ELSE co[i]]
            /\ UNCHANGED <<result, run_log>>
    /\ UNCHANGED <<call, self, podcast_url, web_page_url, todoist,
                   args, tasks_with_urls, done_order, processed_articles,
                   failed_articles, run_error, effects>>

\* The empty path with the email sent in a dry run too.
EmptyDigest_AlwaysSend(mail) ==
    /\ phase = "empty"
    /\ LET digest == compose_digest(<< <<>> >>, Return("intro"))
       IN  IF digest.tag = "raise" \/ (~args.dry_run /\ mail.tag = "raise")
           THEN /\ phase' = "raised"
                /\ run_error' = Some(IF digest.tag = "raise" THEN digest.val ELSE mail.val)
                /\ effects' = [effects EXCEPT !.compose = @ + 1]
                /\ UNCHANGED <<result, run_log>>
           ELSE /\ phase' = "done"
                /\ result' = Some(OrchestrationResult(0, 0, 0, ~args.dry_run,
                                                      args.dry_run, FALSE))
                /\ effects' = [effects EXCEPT
                                 !.compose = @ + 1,
                                 !.email = @ + 1,
                                 !.file = IF args.dry_run THEN @ + 1 ELSE @]
                /\ run_log' = IF args.dry_run
                              THEN run_log \o <<[msg |-> "Dry run - generated email subject"],
                                                [msg |-> "Dry run - HTML written to file"]>>
                              ELSE run_log
                /\ UNCHANGED run_error
    /\ UNCHANGED <<call, self, podcast_url, web_page_url, todoist,
                   args, tasks_with_urls, co, done_order, processed_articles,
                   failed_articles>>

\* No eligible task: the empty digest is composed and, unless dry_run, sent.
EmptyDigest(mail) ==
    /\ phase = "empty"
    /\ LET digest == compose_digest(<< <<>> >>, Return("intro"))
       IN  IF digest.tag = "raise" \/ (~args.dry_run /\ mail.tag = "raise")
           THEN /\ phase' = "raised"
                /\ run_error' = Some(IF digest.tag = "raise" THEN digest.val ELSE mail.val)
                /\ effects' = [effects EXCEPT !.compose = @ + 1]
                /\ UNCHANGED <<result, run_log>>
           ELSE /\ phase' = "done"
                /\ result' = Some(OrchestrationResult(0, 0, 0, ~args.dry_run,
                                                      args.dry_run, FALSE))
                /\ effects' = [effects EXCEPT
                                 !.compose = @ + 1,
                                 !.email = IF args.dry_run THEN @ ELSE @ + 1,
                                 !.file = IF args.dry_run THEN @ + 1 ELSE @]
                /\ run_log' = IF args.dry_run
                              THEN run_log \o <<[msg |-> "Dry run - generated email subject"],
                                                [msg |-> "Dry run - HTML written to file"]>>
                              ELSE run_log
                /\ UNCHANGED run_error
    /\ UNCHANGED <<call, self, podcast_url, web_page_url, todoist,
                   args, tasks_with_urls, co, done_order, processed_articles,
                   failed_articles>>

\* gather under a run-level timeout: with a coroutine still pending, run gives
\* up with TimeoutError.
Aggregate_Timeout ==
    /\ phase = "fanout"
    /\ IF \E k \in 1..Len(tasks_with_urls) : co[tasks_with_urls[k].id].pc # "done"
       THEN /\ phase' = "raised"
            /\ run_error' = Some(Exc("TimeoutError", <<"run timed out">>))
            /\ UNCHANGED <<processed_articles, failed_articles, run_log>>
       ELSE LET lists == Partition(tasks_with_urls, gather(Coroutines).val,
                                   [processed |-> <<>>, failed |-> <<>>, log |-> <<>>])
            IN  /\ phase' = "truncate"
                /\ processed_articles' = lists.processed
                /\ failed_articles' = lists.failed
                /\ run_log' = run_log \o lists.log
                /\ UNCHANGED run_error
    /\ UNCHANGED <<call, self, podcast_url, web_page_url, todoist,
                   args, tasks_with_urls, co, done_order, result, effects>>

\* Aggregate: gather completes when every coroutine is done; its results are
\* partitioned into processed_articles and failed_articles.
Aggregate ==
    /\ phase = "fanout"
    /\ \A k \in 1..Len(tasks_with_urls) : co[tasks_with_urls[k].id].pc = "done"
    /\ LET results == gather(Coroutines)
       IN  IF results.tag = "raise"
           THEN /\ phase' = "raised"
                /\ run_error' = Some(results.val)
                /\ UNCHANGED <<processed_articles, failed_articles, run_log>>
           ELSE LET lists == Partition(tasks_with_urls, results.val,
                                       [processed |-> <<>>, failed |-> <<>>, log |-> <<>>])
                IN  /\ phase' = "truncate"
                    /\ processed_articles' = lists.processed
                    /\ failed_articles' = lists.failed
                    /\ run_log' = run_log \o lists.log
                    /\ UNCHANGED run_error
    /\ UNCHANGED <<call, self, podcast_url, web_page_url, todoist,
                   args, tasks_with_urls, co, done_order, result, effects>>

\* processed_articles[-max:], the last `max` successes.
ApplyMax_FromEnd(processed, max) ==
    IF IsNone(max) THEN processed
    ELSE SubSeq(processed, Len(processed) - Min2(Val(max), Len(processed)) + 1,
                Len(processed))

\* processed_articles[:max + 1], one more than `max`.
ApplyMax_OneMore(processed, max) ==
    IF IsNone(max) THEN processed ELSE SliceTo(processed, Val(max) + 1)

\* processed_articles[:max]
ApplyMax(processed, max) == IF IsNone(max) THEN processed ELSE SliceTo(processed, Val(max))

\* The limit applied to the logged count only: the list keeps every success.
Truncate_CountOnly ==
    /\ phase = "truncate"
    /\ run_log' = Append(run_log, [msg |-> "Article processing complete",
                                    processed |-> Len(ApplyMax(processed_articles, args.max)),
                                    failed |-> Len(failed_articles)])
    /\ phase' = "publish"
    /\ UNCHANGED <<call, self, podcast_url, web_page_url, todoist,
                   args, tasks_with_urls, co, done_order, processed_articles,
                   failed_articles, result, run_error, effects>>

\* Truncate: the max limit is applied to the successful results, and the
\* counts are logged.
Truncate ==
    /\ phase = "truncate"
    /\ processed_articles' = ApplyMax(processed_articles, args.max)
    /\ run_log' = Append(run_log, [msg |-> "Article processing complete",
                                    processed |-> Len(processed_articles'),
                                    failed |-> Len(failed_articles)])
    /\ phase' = "publish"
    /\ UNCHANGED <<call, self, podcast_url, web_page_url, todoist,
                   args, tasks_with_urls, co, done_order, failed_articles,
                   result, run_error, effects>>

\* The articles whose image render_web_html uploads: _render_web_article
\* uploads when the article has image data and a mime type.
WithImage(articles) ==
    SelectSeq(articles, LAMBDA a : ~IsNone(a.image_data) /\ ~IsNone(a.image_mime_type))

\* Publish without the try/except around the podcast: its exception leaves run.
Publish_Propagate(podcast, intro, image_upload, upload) ==
    /\ phase = "publish"
    /\ LET podcast_on == /\ self.podcast_enabled /\ self.podcast /\ self.tts_client
                         /\ self.storage /\ processed_articles # <<>>
           web_on     == self.storage /\ processed_articles # <<>>
           rendered   == web_on /\ intro.tag = "return"
           images     == IF rendered /\ image_upload.tag = "return"
                         THEN Len(WithImage(processed_articles)) ELSE 0
           podcast_log == IF ~podcast_on THEN <<>>
                          ELSE IF podcast.tag = "return"
                          THEN <<[msg |-> "Podcast generated"]>>
                          ELSE <<[msg |-> "Failed to generate podcast"]>>
           web_log    == IF ~web_on THEN <<>>
                         ELSE IF rendered /\ upload.tag = "return"
                         THEN <<[msg |-> "Web digest page uploaded"]>>
                         ELSE <<[msg |-> "Failed to generate web page"]>>
       IN  IF podcast_on /\ podcast.tag = "raise"
           THEN /\ phase' = "raised"
                /\ run_error' = Some(podcast.val)
                /\ UNCHANGED <<podcast_url, web_page_url, effects, run_log>>
           ELSE
           /\ phase' = "compose"
           /\ UNCHANGED run_error
           /\ podcast_url' = IF podcast_on /\ podcast.tag = "return"
                             THEN Some(podcast.val) ELSE None
           /\ web_page_url' = IF rendered /\ upload.tag = "return"
                              THEN Some(upload.val) ELSE None
           /\ effects' = [effects EXCEPT !.upload =
                             @ + (IF podcast_on /\ podcast.tag = "return" THEN 1 ELSE 0)
                               + images
                               + (IF rendered /\ upload.tag = "return" THEN 1 ELSE 0)]
           /\ run_log' = run_log \o podcast_log \o web_log
    /\ UNCHANGED <<call, self, todoist, args, tasks_with_urls, co, done_order,
                   processed_articles, failed_articles, result>>

\* Publish: the podcast is generated and uploaded when it is enabled and a
\* TTS client and a storage are configured, and the web page of the digest is
\* rendered (its images uploaded) and uploaded when a storage is configured,
\* both only with at least one processed article, whatever dry_run is. An
\* exception in either step is logged and the run continues.
Publish(podcast, intro, image_upload, upload) ==
    /\ phase = "publish"
    /\ LET podcast_on == /\ self.podcast_enabled /\ self.podcast /\ self.tts_client
                         /\ self.storage /\ processed_articles # <<>>
           web_on     == self.storage /\ processed_articles # <<>>
           rendered   == web_on /\ intro.tag = "return"
           images     == IF rendered /\ image_upload.tag = "return"
                         THEN Len(WithImage(processed_articles)) ELSE 0
           podcast_log == IF ~podcast_on THEN <<>>
                          ELSE IF podcast.tag = "return"
                          THEN <<[msg |-> "Podcast generated"]>>
                          ELSE <<[msg |-> "Failed to generate podcast"]>>
           web_log    == IF ~web_on THEN <<>>
                         ELSE IF rendered /\ upload.tag = "return"
                         THEN <<[msg |-> "Web digest page uploaded"]>>
                         ELSE <<[msg |-> "Failed to generate web page"]>>
       IN  /\ podcast_url' = IF podcast_on /\ podcast.tag = "return"
                             THEN Some(podcast.val) ELSE None
           /\ web_page_url' = IF rendered /\ upload.tag = "return"
                              THEN Some(upload.val) ELSE None
           /\ effects' = [effects EXCEPT !.upload =
                             @ + (IF podcast_on /\ podcast.tag = "return" THEN 1 ELSE 0)
                               + images
                               + (IF rendered /\ upload.tag = "return" THEN 1 ELSE 0)]
           /\ run_log' = run_log \o podcast_log \o web_log
    /\ phase' = "compose"
    /\ UNCHANGED <<call, self, todoist, args, tasks_with_urls, co, done_order,
                   processed_articles, failed_articles, result, run_error>>

\* self._digest.compose_digest(processed_articles, podcast_url, web_page_url,
\* failed_articles): four positional arguments.
ComposeDigest(intro) ==
    /\ phase = "compose"
    /\ LET digest == compose_digest(<<processed_articles, podcast_url, web_page_url,
                                      failed_articles>>,
                                    intro)
       IN  IF digest.tag = "raise"
           THEN /\ phase' = "raised"
                /\ run_error' = Some(digest.val)
                /\ effects' = IF IsInstance(digest.val, "TypeError") THEN effects
                              ELSE [effects EXCEPT !.compose = @ + 1]
           ELSE /\ phase' = "send"
                /\ effects' = [effects EXCEPT !.compose = @ + 1]
                /\ UNCHANGED run_error
    /\ UNCHANGED <<call, self, podcast_url, web_page_url, todoist,
                   args, tasks_with_urls, co, done_order, processed_articles,
                   failed_articles, result, run_log>>

\* ----------------------------------------------------- the tail of run
\* The statements of run that follow a compose_digest call that returns.

\* DigestService.compose_digest as its callers and the unit tests of the
\* digest use it: articles, podcast_url, web_page_url and failed_articles are
\* accepted, and the failed articles are rendered in a footnote.
compose_digest_with_failures(call_args, intro) ==
    IF call_args[1] = <<>>
    THEN Return([subject |-> "tl;drist reading digest", articles |-> <<>>,
                 failures |-> call_args[4]])
    ELSE IF intro.tag = "raise" THEN intro
    ELSE Return([subject |-> "tl;drist reading digest", articles |-> call_args[1],
                 failures |-> call_args[4]])

ComposeAccepted(intro) ==
    /\ phase = "compose"
    /\ LET digest == compose_digest_with_failures(<<processed_articles, podcast_url,
                                                    web_page_url, failed_articles>>,
                                                  intro)
       IN  IF digest.tag = "raise"
           THEN /\ phase' = "raised"
                /\ run_error' = Some(digest.val)
           ELSE /\ phase' = "send"
                /\ UNCHANGED run_error
    /\ effects' = [effects EXCEPT !.compose = @ + 1]
    /\ UNCHANGED <<call, self, podcast_url, web_page_url, todoist,
                   args, tasks_with_urls, co, done_order, processed_articles,
                   failed_articles, result, run_log>>

\* What the Todoist API does to the two writes on the task of each article:
\* TRUE when the request succeeds, FALSE when it raises.
WriteOutcomes(articles) ==
    [{articles[k].task_id : k \in DOMAIN articles} -> [update : BOOLEAN, close : BOOLEAN]]

TodoistCall(op, task_id, ok) == [op |-> op, task_id |-> task_id, ok |-> ok]

RECURSIVE UpdateLoop_CloseAnyway(_, _, _, _)
\* The loop without the `continue` after a failed update.
UpdateLoop_CloseAnyway(articles, k, api, acc) ==
    IF k > Len(articles) THEN acc
    ELSE LET id      == articles[k].task_id
             upd     == TodoistCall("update", id, api[id].update)
             cls     == TodoistCall("close", id, api[id].close)
             counted == IF api[id].update
                        THEN [acc EXCEPT !.updated = @ + 1]
                        ELSE [acc EXCEPT !.update_failed = @ + 1]
         IN  UpdateLoop_CloseAnyway(articles, k + 1, api,
                 IF api[id].close
                 THEN [counted EXCEPT !.closed = @ + 1,
                                      !.calls = @ \o <<upd, cls>>]
                 ELSE [counted EXCEPT !.close_failed = @ + 1,
                                      !.calls = @ \o <<upd, cls>>])

RECURSIVE UpdateLoop(_, _, _, _)
\* The for loop of _update_and_close_tasks from its k-th article on: update
\* the description; on an exception count it and go to the next article;
\* otherwise close the task and count the outcome.
UpdateLoop(articles, k, api, acc) ==
    IF k > Len(articles) THEN acc
    ELSE LET id  == articles[k].task_id
             upd == TodoistCall("update", id, api[id].update)
             cls == TodoistCall("close", id, api[id].close)
         IN  UpdateLoop(articles, k + 1, api,
                 IF ~api[id].update
                 THEN [acc EXCEPT !.update_failed = @ + 1,
                                  !.calls = Append(@, upd)]
                 ELSE IF api[id].close
                 THEN [acc EXCEPT !.updated = @ + 1, !.closed = @ + 1,
                                  !.calls = @ \o <<upd, cls>>]
                 ELSE [acc EXCEPT !.updated = @ + 1, !.close_failed = @ + 1,
                                  !.calls = @ \o <<upd, cls>>])

\* The four counters it returns, and the requests it made in their order.
_update_and_close_tasks(articles, api) ==
    UpdateLoop(articles, 1, api,
               [updated |-> 0, update_failed |-> 0, closed |-> 0, close_failed |-> 0,
                calls |-> <<>>])

\* The tail going on to the task updates without sending the email.
SendOrPreview_UpdateFirst(mail) ==
    /\ phase = "send"
    /\ IF args.dry_run
       THEN /\ phase' = "done"
            /\ effects' = [effects EXCEPT !.file = @ + 1]
            /\ run_log' = run_log \o <<[msg |-> "Dry run - generated email subject"],
                                       [msg |-> "Dry run - HTML written to file"]>>
            /\ result' = Some([OrchestrationResult(Len(tasks_with_urls),
                                                   Len(processed_articles),
                                                   Len(failed_articles),
                                                   FALSE, TRUE, FALSE)
                                  EXCEPT !.podcast_url = podcast_url])
            /\ UNCHANGED run_error
       ELSE /\ phase' = "update"
            /\ UNCHANGED <<effects, run_log, result, run_error>>
    /\ UNCHANGED <<call, self, podcast_url, web_page_url, todoist,
                   args, tasks_with_urls, co, done_order, processed_articles,
                   failed_articles>>

\* if not dry_run: send_email, which may raise; else write the dry-run HTML
\* and return the result.
SendOrPreview(mail) ==
    /\ phase = "send"
    /\ IF args.dry_run
       THEN /\ phase' = "done"
            /\ effects' = [effects EXCEPT !.file = @ + 1]
            /\ run_log' = run_log \o <<[msg |-> "Dry run - generated email subject"],
                                       [msg |-> "Dry run - HTML written to file"]>>
            /\ result' = Some([OrchestrationResult(Len(tasks_with_urls),
                                                   Len(processed_articles),
                                                   Len(failed_articles),
                                                   FALSE, TRUE, FALSE)
                                  EXCEPT !.podcast_url = podcast_url])
            /\ UNCHANGED run_error
       ELSE IF mail.tag = "raise"
       THEN /\ phase' = "raised"
            /\ run_error' = Some(mail.val)
            /\ UNCHANGED <<effects, run_log, result>>
       ELSE /\ phase' = "update"
            /\ effects' = [effects EXCEPT !.email = @ + 1]
            /\ run_log' = Append(run_log, [msg |-> "Digest email sent"])
            /\ UNCHANGED <<result, run_error>>
    /\ UNCHANGED <<call, self, podcast_url, web_page_url, todoist,
                   args, tasks_with_urls, co, done_order, processed_articles,
                   failed_articles>>

\* _update_and_close_tasks(processed_articles), the log of its counters and
\* the return of the OrchestrationResult.
UpdateAndReturn(api) ==
    /\ phase = "update"
    /\ LET counts == _update_and_close_tasks(processed_articles, api)
       IN  /\ effects' = [effects EXCEPT !.todoist_write = @ + Len(counts.calls),
                                         !.todoist_calls = @ \o counts.calls]
           /\ run_log' = Append(run_log, [msg |-> "Tasks updated and closed",
                                          updated |-> counts.updated,
                                          update_failed |-> counts.update_failed,
                                          closed |-> counts.closed,
                                          close_failed |-> counts.close_failed])
           /\ result' = Some([OrchestrationResult(Len(tasks_with_urls),
                                                  Len(processed_articles),
                                                  Len(failed_articles),
                                                  TRUE, FALSE, FALSE)
                                 EXCEPT !.tasks_updated = counts.updated,
                                        !.tasks_update_failed = counts.update_failed,
                                        !.tasks_closed = counts.closed,
                                        !.tasks_close_failed = counts.close_failed,
                                        !.podcast_url = podcast_url])
    /\ phase' = "done"
    /\ UNCHANGED <<call, self, podcast_url, web_page_url, todoist,
                   args, tasks_with_urls, co, done_order, processed_articles,
                   failed_articles, run_error>>

\* ------------------------------------------------------------------ routes

\* The checks for partial success made before the check for failure.
_determine_status_PartialFirst(tasks_found, articles_processed, articles_failed, tasks_update_failed, skipped) ==
    IF skipped THEN "skipped"
    ELSE IF articles_failed > 0 \/ tasks_update_failed > 0 THEN "partial_success"
    ELSE IF articles_processed = 0 /\ tasks_found > 0 THEN "failed"
    ELSE "success"

\* _determine_status of the API route, applied to the fields of the result.
_determine_status(tasks_found, articles_processed, articles_failed, tasks_update_failed, skipped) ==
    IF skipped THEN "skipped"
    ELSE IF articles_processed = 0 /\ tasks_found > 0 THEN "failed"
    ELSE IF articles_failed > 0 \/ tasks_update_failed > 0 THEN "partial_success"
    ELSE "success"

\* The status of the response the route builds from what run returned.
ResponseStatus(r) ==
    _determine_status(r.tasks_found, r.articles_processed, r.articles_failed,
                      r.tasks_update_failed, r.skipped)

\* ----------------------------------------------------------- specifications

\* A project with its tasks, an orchestrator just constructed without optional
\* collaborators.
Init ==
    /\ todoist \in TaskLists({"web", "arxiv_abs"})
    /\ phase = "idle"
    /\ args = [dry_run |-> FALSE, min |-> None, max |-> None]
    /\ tasks_with_urls = <<>>
    /\ co = [i \in Ids |-> NoCoroutine]
    /\ done_order = <<>>
    /\ processed_articles = <<>>
    /\ failed_articles = <<>>
    /\ result = None
    /\ run_error = None
    /\ run_log = <<>>
    /\ effects = NoEffects
    /\ call = NoCall
    /\ self = Bare
    /\ podcast_url = None
    /\ web_page_url = None

Next ==
    \/ \E a \in RunArgs : RunCall(a)
    \/ \E listing \in ListOutcomes : Intake(listing)
    \/ ThresholdCheck
    \/ \E mail \in MailOutcomes : EmptyDigest(mail)
    \/ \E i \in Ids : Start(i)
    \/ \E i \in Ids, http \in BatchWebOutcomes : FetchReturn(i, http)
    \/ \E i \in Ids, net \in BatchArxivOutcomes : FetchArxivReturn(i, net)
    \/ \E i \in Ids, gen \in GenOutcomes : SummarizeReturn(i, gen)
    \/ \E i \in Ids, gen \in GenOutcomes, figure \in BatchFigureOutcomes :
          SummarizeArxivReturn(i, gen, figure)
    \/ Aggregate
    \/ Truncate
    \/ \E podcast \in PodcastOutcomes, intro \in GenOutcomes,
          image_upload \in UploadOutcomes, upload \in UploadOutcomes :
          Publish(podcast, intro, image_upload, upload)
    \/ \E intro \in GenOutcomes : ComposeDigest(intro)

Spec == Init /\ [][Next]_vars

\* Runs of an orchestrator constructed with any of the optional collaborators,
\* with min and max left unset.
PublishArgs == {a \in RunArgs : IsNone(a.min) /\ IsNone(a.max)}

InitPublish ==
    /\ todoist \in TaskLists({"web", "arxiv_abs"})
    /\ phase = "idle"
    /\ args = [dry_run |-> FALSE, min |-> None, max |-> None]
    /\ tasks_with_urls = <<>>
    /\ co = [i \in Ids |-> NoCoroutine]
    /\ done_order = <<>>
    /\ processed_articles = <<>>
    /\ failed_articles = <<>>
    /\ result = None
    /\ run_error = None
    /\ run_log = <<>>
    /\ effects = NoEffects
    /\ call = NoCall
    /\ self \in Orchestrators
    /\ podcast_url = None
    /\ web_page_url = None

NextPublish ==
    \/ \E a \in PublishArgs : RunCall(a)
    \/ \E listing \in ListOutcomes : Intake(listing)
    \/ ThresholdCheck
    \/ \E mail \in MailOutcomes : EmptyDigest(mail)
    \/ \E i \in Ids : Start(i)
    \/ \E i \in Ids, http \in BatchWebOutcomes : FetchReturn(i, http)
    \/ \E i \in Ids, net \in BatchArxivOutcomes : FetchArxivReturn(i, net)
    \/ \E i \in Ids, gen \in GenOutcomes : SummarizeReturn(i, gen)
    \/ \E i \in Ids, gen \in GenOutcomes, figure \in BatchFigureOutcomes :
          SummarizeArxivReturn(i, gen, figure)
    \/ Aggregate
    \/ Truncate
    \/ \E podcast \in PodcastOutcomes, intro \in GenOutcomes,
          image_upload \in UploadOutcomes, upload \in UploadOutcomes :
          Publish(podcast, intro, image_upload, upload)
    \/ \E intro \in GenOutcomes : ComposeDigest(intro)

SpecPublish == InitPublish /\ [][NextPublish]_vars

\* Runs of a fully equipped orchestrator whose digest service accepts the
\* failed articles, over projects of web articles.
InitTail ==
    /\ todoist \in TaskLists({"web"})
    /\ phase = "idle"
    /\ args = [dry_run |-> FALSE, min |-> None, max |-> None]
    /\ tasks_with_urls = <<>>
    /\ co = [i \in Ids |-> NoCoroutine]
    /\ done_order = <<>>
    /\ processed_articles = <<>>
    /\ failed_articles = <<>>
    /\ result = None
    /\ run_error = None
    /\ run_log = <<>>
    /\ effects = NoEffects
    /\ call = NoCall
    /\ self = Orchestrator(TRUE, TRUE, TRUE)
    /\ podcast_url = None
    /\ web_page_url = None

NextTail ==
    \/ \E a \in RunArgs : RunCall(a)
    \/ \E listing \in ListOutcomes : Intake(listing)
    \/ ThresholdCheck
    \/ \E mail \in MailOutcomes : EmptyDigest(mail)
    \/ \E i \in Ids : Start(i)
    \/ \E i \in Ids, http \in BatchWebOutcomes : FetchReturn(i, http)
    \/ \E i \in Ids, gen \in GenOutcomes : SummarizeReturn(i, gen)
    \/ Aggregate
    \/ Truncate
    \/ \E podcast \in PodcastOutcomes, intro \in GenOutcomes,
          image_upload \in UploadOutcomes, upload \in UploadOutcomes :
          Publish(podcast, intro, image_upload, upload)
    \/ \E intro \in GenOutcomes : ComposeAccepted(intro)
    \/ \E mail \in MailOutcomes : SendOrPreview(mail)
    \/ \E api \in WriteOutcomes(processed_articles) : UpdateAndReturn(api)

SpecTail == InitTail /\ [][NextTail]_vars

\* The steps of the runs with min and max left unset.
NextTailLive ==
    \/ \E a \in PublishArgs : RunCall(a)
    \/ \E listing \in ListOutcomes : Intake(listing)
    \/ ThresholdCheck
    \/ \E mail \in MailOutcomes : EmptyDigest(mail)
    \/ \E i \in Ids : Start(i)
    \/ \E i \in Ids, http \in BatchWebOutcomes : FetchReturn(i, http)
    \/ \E i \in Ids, gen \in GenOutcomes : SummarizeReturn(i, gen)
    \/ Aggregate
    \/ Truncate
    \/ \E podcast \in PodcastOutcomes, intro \in GenOutcomes,
          image_upload \in UploadOutcomes, upload \in UploadOutcomes :
          Publish(podcast, intro, image_upload, upload)
    \/ \E intro \in GenOutcomes : ComposeAccepted(intro)
    \/ \E mail \in MailOutcomes : SendOrPreview(mail)
    \/ \E api \in WriteOutcomes(processed_articles) : UpdateAndReturn(api)

\* These runs when every step that can be taken eventually is: the event
\* loop resumes every coroutine that is ready, and every external call
\* eventually returns or raises.
SpecTailLive == InitTail /\ [][NextTailLive]_vars /\ WF_vars(NextTailLive)


\* One task handed directly to _process_task or _process_arxiv_task, with
\* everything the fetcher's collaborators can do.
InitTask ==
    /\ todoist \in {<<TodoistTask(1, u)>> : u \in OptUrls(1, {"web", "arxiv_abs", "arxiv_pdf"})}
    /\ phase = "direct"
    /\ args = [dry_run |-> FALSE, min |-> None, max |-> None]
    /\ tasks_with_urls = <<>>
    /\ \E entry \in {"_process_task", "_process_arxiv_task"} :
          co = [i \in Ids |-> IF i = 1 THEN Created(entry) ELSE NoCoroutine]
    /\ done_order = <<>>
    /\ processed_articles = <<>>
    /\ failed_articles = <<>>
    /\ result = None
    /\ run_error = None
    /\ run_log = <<>>
    /\ effects = NoEffects
    /\ call = NoCall
    /\ self = Bare
    /\ podcast_url = None
    /\ web_page_url = None

NextTask ==
    \/ \E i \in Ids : Start(i)
    \/ \E i \in Ids, http \in WebOutcomes : FetchReturn(i, http)
    \/ \E i \in Ids, net \in ArxivOutcomes : FetchArxivReturn(i, net)
    \/ \E i \in Ids, gen \in GenOutcomes : SummarizeReturn(i, gen)
    \/ \E i \in Ids, gen \in GenOutcomes, figure \in FigureOutcomes :
          SummarizeArxivReturn(i, gen, figure)

SpecTask == InitTask /\ [][NextTask]_vars

\* A function of the summarizer is called on its own, once.
Called(fn, input, out) ==
    /\ call = NoCall
    /\ call' = [fn |-> fn, input |-> input, out |-> out]
    /\ UNCHANGED <<self, podcast_url, web_page_url,
                   todoist, phase, args, tasks_with_urls, co, done_order,
                   processed_articles, failed_articles, result, run_error, run_log,
                   effects>>

CallExtractFigure(pdf, figure_info) ==
    Called("_extract_figure_image", [pdf |-> pdf, figure_info |-> figure_info],
           _extract_figure_image(pdf, figure_info))

\* The page rectangles: origin at or off zero, widths around twice the margin,
\* heights that are multiples of 5.
PageRects ==
    {Rect(x0, y0, x0 + w, y0 + h) : x0 \in {0, 10}, y0 \in {0, 10},
                                    w \in {2 * Margin, 2 * Margin + 10, 100},
                                    h \in {10, 50, 100}}

\* The rectangles of a caption found on a page: its top edge anywhere on the
\* page.
CaptionRects(page_rect) ==
    {Rect(page_rect.x0, c, page_rect.x1, c) : c \in page_rect.y0..page_rect.y1}

\* The estimate of the figure region, for a caption found on a page.
CallEstimateRegion(page_rect, caption_rect) ==
    Called("EstimateRegion", [page_rect |-> page_rect, caption_rect |-> caption_rect],
           EstimateRegion(page_rect, caption_rect))

CallLargestRaster(images) ==
    Called("_extract_largest_raster_image", images, _extract_largest_raster_image(images))

\* summarize_arxiv on a paper that was fetched; with its result, the call of
\* _extract_figure_image it made.
CallSummarizeArxiv(gen, figure) ==
    Called("summarize_arxiv", [gen |-> gen, figure |-> figure],
           [result |-> summarize_arxiv(1, ArxivContent(Url("arxiv_abs", 1),
                                                       Url("arxiv_pdf_file", 1),
                                                       Title("arXiv:", 1), "pdf"),
                                       gen, figure),
            attempt |-> FigureAttempt(figure)])

\* Nothing runs: no project, no run, no coroutine.
InitCall ==
    /\ todoist = <<>>
    /\ phase = "direct"
    /\ args = [dry_run |-> FALSE, min |-> None, max |-> None]
    /\ tasks_with_urls = <<>>
    /\ co = [i \in Ids |-> NoCoroutine]
    /\ done_order = <<>>
    /\ processed_articles = <<>>
    /\ failed_articles = <<>>
    /\ result = None
    /\ run_error = None
    /\ run_log = <<>>
    /\ effects = NoEffects
    /\ call = NoCall
    /\ self = Bare
    /\ podcast_url = None
    /\ web_page_url = None

NextFigure ==
    \/ /\ call = NoCall
       /\ \E pdf \in Pdfs, figure_info \in FigureHints : CallExtractFigure(pdf, figure_info)
    \/ /\ call = NoCall
       /\ \E images \in ImageLists : CallLargestRaster(images)
    \/ /\ call = NoCall
       /\ \E gen \in GenOutcomes, figure \in FigureOutcomes : CallSummarizeArxiv(gen, figure)
    \/ /\ call = NoCall
       /\ \E page_rect \in PageRects :
             \E caption_rect \in CaptionRects(page_rect) :
                 CallEstimateRegion(page_rect, caption_rect)

SpecFigure == InitCall /\ [][NextFigure]_vars

CallIdentify(gen) ==
    Called("identify_important_figure", gen, identify_important_figure(gen))

NextGemini ==
    /\ call = NoCall
    /\ \E gen \in ReplyOutcomes : CallIdentify(gen)

SpecGemini == InitCall /\ [][NextGemini]_vars

\* ------------------------------------------------------------------ claims

\* The ids of the eligible tasks: the project's tasks that have a URL.
Eligible == {i \in DOMAIN todoist : ~IsNone(todoist[i].url)}

EligibleSeq == SelectSeq(todoist, LAMBDA t : ~IsNone(t.url))

\* run has partitioned the results of the fan-out.
Partitioned ==
    \/ phase = "truncate"
    \/ \E k \in DOMAIN run_log : run_log[k].msg = "Article processing complete"

\* run has truncated the processed list and logged the counts.
Surfaced == \E k \in DOMAIN run_log : run_log[k].msg = "Article processing complete"

\* The counts run logged: [processed, failed].
LoggedCounts ==
    LET k == CHOOSE j \in DOMAIN run_log : run_log[j].msg = "Article processing complete"
    IN  run_log[k]

\* The number of eligible tasks run logged.
LoggedFound ==
    LET k == CHOOSE j \in DOMAIN run_log : run_log[j].msg = "Found tasks with URLs"
    IN  run_log[k].count

CountProcessed(i) ==
    Cardinality({k \in DOMAIN processed_articles : processed_articles[k].task_id = i})

CountFailed(i) ==
    Cardinality({k \in DOMAIN failed_articles :
                    failed_articles[k].url = Val(todoist[i].url)})

\* What task i's coroutine yields, as a function of that task alone: its URL,
\* what its own fetch did and what its own generation calls (the summary and,
\* for a paper, the figure) did.
OwnOutcome(i) ==
    LET task == todoist[i]
    IN  IF IsNone(task.url) THEN Return(FailedArticle(EmptyUrl, <<"no URL">>))
        ELSE LET url     == Val(task.url)
                 arxiv   == co[i].entry = "_process_arxiv_task" \/ is_arxiv_url(url)
                 fetched == IF arxiv THEN fetch_arxiv(url, Val(co[i].fetch_in))
                            ELSE fetch(url, Val(co[i].fetch_in))
             IN  IF fetched.tag = "raise"
                 THEN IF fetched.val.cls = "FetchError"
                      THEN Return(FailedArticle(url, fetched.val.reason))
                      ELSE fetched
                 ELSE IF Val(co[i].gen_in).tag = "raise"
                      THEN Return(FailedArticle(url,
                              <<"summarization failed: ">> \o Val(co[i].gen_in).val.msg))
                      ELSE IF ~IsNone(co[i].fig_in)
                      THEN summarize_arxiv(task.id, fetched.val, Val(co[i].gen_in),
                                           Val(co[i].fig_in))
                      ELSE Return(ProcessedArticle(task.id, url, fetched.val.title,
                                                   Val(co[i].gen_in).val))

\* The item task i contributes to the lists, given its coroutine's outcome.
ItemOf(i, outcome) ==
    IF outcome.tag = "raise" THEN FailedArticle(Val(todoist[i].url), outcome.val.msg)
    ELSE outcome.val

\* The items of all eligible tasks, in input order.
AllItems == [k \in 1..Len(EligibleSeq) |->
                ItemOf(EligibleSeq[k].id, Val(co[EligibleSeq[k].id].ret))]

Successes == SelectSeq(AllItems, LAMBDA x : x.type = "ProcessedArticle")

Failures == SelectSeq(AllItems, LAMBDA x : x.type = "FailedArticle")

\* C1: with min and max unset, once the fan-out over N > 0 eligible tasks is
\* partitioned, every eligible task has exactly one item, in the processed
\* list or in the failed list, and the counts (the lengths of the lists, the
\* counts run logs, the counts of a returned result) add up to N, the number
\* of tasks found.
C1_OneOutcomePerTask ==
    (IsNone(args.min) /\ IsNone(args.max) /\ Partitioned) =>
        /\ Cardinality(Eligible) > 0
        /\ \A i \in Eligible : CountProcessed(i) + CountFailed(i) = 1
        /\ Len(processed_articles) + Len(failed_articles) = Cardinality(Eligible)
        /\ LoggedFound = Cardinality(Eligible)
        /\ Len(tasks_with_urls) = Cardinality(Eligible)
        /\ Surfaced => LoggedCounts.processed + LoggedCounts.failed = Cardinality(Eligible)
        /\ ~IsNone(result) =>
              Val(result).articles_processed + Val(result).articles_failed
                  = Val(result).tasks_found

\* C1 witness: a batch of two, one task processed and one failed by an
\* exception that left its coroutine, partitioned and logged.
C1_Witness ==
    /\ IsNone(args.min) /\ IsNone(args.max) /\ Surfaced
    /\ Cardinality(Eligible) = 2
    /\ Len(processed_articles) = 1 /\ Len(failed_articles) = 1
    /\ \E i \in Eligible : Val(co[i].ret).tag = "raise"

\* No fetch, summarize, compose, email or Todoist write has happened.
NoWork ==
    /\ \A i \in Ids : effects.fetch[i] = 0 /\ effects.summarize[i] = 0
    /\ effects.compose = 0
    /\ effects.email = 0
    /\ effects.todoist_write = 0

\* C2: when min is configured and fewer tasks are eligible, the run does no
\* work at any point and, when the task listing succeeds, ends with the
\* skipped result: skipped, nothing processed or failed, no email.
C2_BelowMinSkips ==
    (~IsNone(args.min) /\ Cardinality(Eligible) < Val(args.min)) =>
        /\ NoWork
        /\ phase \in {"intake", "threshold", "done", "raised"}
        /\ phase = "raised" => Val(run_error).cls = "HTTPStatusError"
        /\ phase = "done" =>
              result = Some(OrchestrationResult(Cardinality(Eligible), 0, 0, FALSE,
                                                args.dry_run, TRUE))

\* C2 witness: a skipped run whose eligible set is empty, with min > 0.
C2_Witness ==
    /\ phase = "done" /\ ~IsNone(result) /\ Val(result).skipped
    /\ Eligible = {} /\ Val(args.min) > 0

\* C3: with max = k >= 0, once the counts are logged, every eligible task was
\* fetched exactly once and ran to its end, the processed list is the first
\* min(k, s) of the s successful items in input order, and the failed list
\* holds every failed item, as it does without max.
C3_MaxTruncatesResults ==
    (Surfaced /\ ~IsNone(args.max) /\ Val(args.max) >= 0) =>
        /\ \A i \in Eligible : effects.fetch[i] = 1 /\ co[i].pc = "done"
        /\ processed_articles
              = SubSeq(Successes, 1, Min2(Val(args.max), Len(Successes)))
        /\ failed_articles = Failures
        /\ LoggedCounts.failed = Len(Failures)
        /\ LoggedCounts.processed = Min2(Val(args.max), Len(Successes))

\* C3 witness: max = 1 with two successful tasks: one is surfaced.
C3_Witness ==
    /\ Surfaced /\ args.max = Some(1)
    /\ Len(Successes) = 2 /\ Len(processed_articles) = 1

\* C4: every finished coroutine's outcome is the function of its own task,
\* fetch and generation call; the partitioned lists hold each task's own item;
\* and once the fan-out has started, run raises only after the lists were
\* partitioned and logged: no task aborts the batch.
C4_TasksIndependent ==
    /\ \A i \in Ids : co[i].pc = "done" => Val(co[i].ret) = OwnOutcome(i)
    /\ Partitioned =>
          /\ failed_articles =
                SelectSeq([k \in 1..Len(EligibleSeq) |->
                              ItemOf(EligibleSeq[k].id, OwnOutcome(EligibleSeq[k].id))],
                          LAMBDA x : x.type = "FailedArticle")
          /\ \A i \in Eligible :
                ItemOf(i, OwnOutcome(i)).type = "ProcessedArticle" /\ phase = "truncate"
                    => \E k \in DOMAIN processed_articles :
                          processed_articles[k] = OwnOutcome(i).val
    /\ (phase = "raised" /\ \E i \in Ids : co[i].pc # "none") => Surfaced

\* C4 witness: one task fails by an exception first, the other is processed
\* afterwards, and both are partitioned.
C4_Witness ==
    /\ Partitioned
    /\ done_order = <<1, 2>>
    /\ Val(co[1].ret).tag = "raise"
    /\ Val(co[2].ret).tag = "return" /\ Val(co[2].ret).val.type = "ProcessedArticle"

\* C6: the processed list and the failed list hold their items in the order
\* of the task list, whatever order the coroutines finished in.
C6_InputOrder ==
    Partitioned =>
        /\ \A a, b \in DOMAIN processed_articles :
              a < b => processed_articles[a].task_id < processed_articles[b].task_id
        /\ \A a, b \in DOMAIN failed_articles :
              a < b => failed_articles[a].url.key < failed_articles[b].url.key

\* C6 witness: the second task finished first, and both are in one list.
C6_Witness ==
    /\ phase = "truncate"
    /\ done_order = <<2, 1>>
    /\ Len(processed_articles) = 2 \/ Len(failed_articles) = 2

\* C5 (as claimed): when an exception leaves a task's coroutine, run does not
\* raise, and once the results are partitioned the task has one FailedArticle
\* with its URL and the exception's message, counted among the failed.
C5_RunDoesNotRaise ==
    \A i \in Eligible :
        (co[i].pc = "done" /\ Val(co[i].ret).tag = "raise") =>
            /\ IsNone(run_error)
            /\ Partitioned =>
                  /\ \E k \in DOMAIN failed_articles :
                        failed_articles[k]
                            = FailedArticle(Val(todoist[i].url), Val(co[i].ret).val.msg)
                  /\ CountFailed(i) = 1 /\ CountProcessed(i) = 0
                  /\ Len(processed_articles) + Len(failed_articles) = Cardinality(Eligible)

\* C7: a task without a URL handed to _process_task or _process_arxiv_task
\* yields FailedArticle(url = "", reason = "no URL"), and neither the fetcher
\* nor the summarizer is called for it.
C7_NoUrlNoCalls ==
    \A i \in DOMAIN todoist :
        (IsNone(todoist[i].url) /\ co[i].pc # "none") =>
            /\ effects.fetch[i] = 0 /\ effects.summarize[i] = 0
            /\ co[i].pc \in {"created", "done"}
            /\ co[i].pc = "done" =>
                  co[i].ret = Some(Return(FailedArticle(EmptyUrl, <<"no URL">>)))

\* C7 witness: _process_task has returned for a task without a URL.
C7_Witness ==
    /\ IsNone(todoist[1].url)
    /\ co[1].entry = "_process_task" /\ co[1].pc = "done"

\* Task i is an ordinary URL processed by _process_task, and its GET is over.
OrdinaryFetched(i) ==
    /\ i \in Eligible
    /\ co[i].entry = "_process_task" /\ ~is_arxiv_url(Val(todoist[i].url))
    /\ ~IsNone(co[i].fetch_in)

\* The coroutine of task i ended with a FailedArticle for the task's URL and
\* the summarizer was not called.
FailedUnsummarized(i) ==
    /\ co[i].pc = "done" /\ Val(co[i].ret).tag = "return"
    /\ Val(co[i].ret).val.type = "FailedArticle"
    /\ Val(co[i].ret).val.url = Val(todoist[i].url)
    /\ effects.summarize[i] = 0

\* C8: for an ordinary URL, a response outside 2xx fails the task with reason
\* "HTTP {status}", a timeout with reason "timeout", any other transport
\* failure with a reason that begins "request error: "; the FailedArticle
\* carries the task's URL and the summarizer is not called.
C8_TransportReasons ==
    \A i \in Ids :
        OrdinaryFetched(i) =>
            LET http == Val(co[i].fetch_in)
            IN  /\ (http.tag = "return" /\ ~(http.val.status \in 200..299)) =>
                      /\ FailedUnsummarized(i)
                      /\ Val(co[i].ret).val.reason = <<"HTTP ", StatusText(http.val.status)>>
                /\ (http.tag = "raise" /\ "TimeoutException" \in Bases(http.val.cls)) =>
                      /\ FailedUnsummarized(i)
                      /\ Val(co[i].ret).val.reason = <<"timeout">>
                /\ (http.tag = "raise" /\ "TransportError" \in Bases(http.val.cls)
                                      /\ "TimeoutException" \notin Bases(http.val.cls)) =>
                      /\ FailedUnsummarized(i)
                      /\ Head(Val(co[i].ret).val.reason) = "request error: "
                      /\ Tail(Val(co[i].ret).val.reason) = http.val.msg

\* C8 witness: a 403 response has failed the task.
C8_Witness ==
    /\ OrdinaryFetched(1)
    /\ Val(co[1].fetch_in).tag = "return" /\ Val(co[1].fetch_in).val.status = 403
    /\ co[1].pc = "done"

\* The number of words of the final candidate of a page: the primary
\* extraction when it has at least 50 words, else the readability extraction
\* (nothing when it raises or yields None).
FinalWords(page) ==
    IF ~IsNone(page.primary) /\ Val(page.primary).words >= 50
    THEN Val(page.primary).words
    ELSE IF page.readability.tag = "raise" \/ IsNone(page.readability.val.summary) THEN 0
    ELSE Val(page.readability.val.summary).words

\* C9: for an ordinary URL whose HTML was retrieved, the fetch succeeds iff
\* the final candidate has at least 50 words: with fewer (49 included) the
\* task fails with reason "content extraction failed"; with 50 the fetch
\* returns a valid Article whose word_count is the word count of its content.
C9_FiftyWordGate ==
    \A i \in Ids :
        (OrdinaryFetched(i) /\ Val(co[i].fetch_in).tag = "return"
                            /\ Val(co[i].fetch_in).val.status \in 200..299) =>
            LET words == FinalWords(Val(co[i].fetch_in).val.page)
            IN  /\ ~IsNone(co[i].fetched) <=> words >= 50
                /\ words <= 49 =>
                      /\ FailedUnsummarized(i)
                      /\ Val(co[i].ret).val.reason = <<"content extraction failed">>
                /\ words >= 50 =>
                      /\ Val(co[i].fetched).type = "Article"
                      /\ Val(co[i].fetched).word_count >= 50
                      /\ Val(co[i].fetched).word_count = words
                      /\ Val(co[i].fetched).word_count = SplitLen(Val(co[i].fetched).content)
                      /\ Val(co[i].fetched).url = Val(todoist[i].url)

\* C9 witness: the primary extraction has 49 words, the readability fallback
\* exactly 50, and the fetch returned the article.
C9_Witness ==
    /\ OrdinaryFetched(1) /\ Val(co[1].fetch_in).tag = "return"
    /\ Val(co[1].fetch_in).val.page.primary = Some(Text(49))
    /\ FinalWords(Val(co[1].fetch_in).val.page) = 50
    /\ ~IsNone(co[1].fetched)

\* C10: a task whose fetch succeeded and whose summarization raised yields
\* FailedArticle(url, "summarization failed: " + message); once partitioned it
\* has that one item in the failed list and none in the processed list.
C10_SummarizationFailure ==
    \A i \in Eligible :
        (~IsNone(co[i].gen_in) /\ Val(co[i].gen_in).tag = "raise") =>
            LET item == FailedArticle(Val(todoist[i].url),
                            <<"summarization failed: ">> \o Val(co[i].gen_in).val.msg)
            IN  /\ ~IsNone(co[i].fetched)
                /\ co[i].ret = Some(Return(item))
                /\ Partitioned =>
                      /\ Cardinality({k \in DOMAIN failed_articles :
                                        failed_articles[k] = item}) = 1
                      /\ CountFailed(i) = 1
                      /\ CountProcessed(i) = 0

\* C10 witness: the summarization of an ordinary page and of an arXiv paper
\* both raised, and both tasks are in the failed list.
C10_Witness ==
    /\ Partitioned /\ Len(failed_articles) = 2
    /\ \E i, j \in Eligible :
          /\ todoist[i].url = Some(Url("web", i))
          /\ todoist[j].url = Some(Url("arxiv_abs", j))
          /\ ~IsNone(co[i].gen_in) /\ Val(co[i].gen_in).tag = "raise"
          /\ ~IsNone(co[j].gen_in) /\ Val(co[j].gen_in).tag = "raise"

\* An arXiv-path task i whose PDF summary succeeded.
PdfSummarized(i) ==
    /\ i \in Eligible /\ co[i].pc = "done"
    /\ ~IsNone(co[i].fig_in)
    /\ Val(co[i].gen_in).tag = "return"

\* Figure identification or extraction went wrong for `figure`:
\* identification raised or found nothing, the PDF cannot be read, an
\* embedded image cannot be read, or the page cannot be rendered.
FigureWentWrong(figure) ==
    \/ figure.identify.tag = "raise"
    \/ IsNone(figure.identify.val)
    \/ ~figure.pdf.opens
    \/ \E k \in DOMAIN figure.pdf.page.images : figure.pdf.page.images[k].extract = "raise"
    \/ (figure.pdf.page.images = <<>> /\ figure.pdf.page.render.tag = "raise")

\* C11: a PDF-class task whose PDF summary succeeded yields a ProcessedArticle
\* with that summary whatever figure identification and extraction do; when
\* they go wrong the image fields are absent, the task is no FailedArticle and
\* nothing is raised.
C11_FigureNeverFailsItem ==
    \A i \in Ids :
        PdfSummarized(i) =>
            LET ret == Val(co[i].ret)
            IN  /\ ret.tag = "return"
                /\ ret.val.type = "ProcessedArticle"
                /\ ret.val.summary = Val(co[i].gen_in).val
                /\ ret.val.task_id = todoist[i].id
                /\ ret.val.url = Val(todoist[i].url)
                /\ FigureWentWrong(Val(co[i].fig_in)) =>
                      /\ IsNone(ret.val.image_data)
                      /\ IsNone(ret.val.image_mime_type)
                      /\ IsNone(ret.val.image_caption)

\* C11 witness: figure identification raised, and the task is processed.
C11_Witness ==
    /\ PdfSummarized(1)
    /\ Val(co[1].fig_in).identify.tag = "raise"
    /\ Val(co[1].ret).val.type = "ProcessedArticle"

\* The page number n of a hint is outside 1..page_count.
OutOfRange(n, pdf) == n < 1 \/ n > pdf.page_count

\* C12: summarize_arxiv calls the locator only for a hint that exists and has
\* a page number; a locator call whose page number is missing or outside
\* 1..page_count returns (None, None) without an error and runs neither
\* Strategy A nor Strategy B.
C12_OutOfRangeNoImage ==
    /\ call.fn = "summarize_arxiv" =>
          LET identify == call.input.figure.identify
          IN  ~IsNone(call.out.attempt) <=>
                  /\ identify.tag = "return" /\ ~IsNone(identify.val)
                  /\ ~IsNone(Val(identify.val).page_number)
    /\ call.fn = "_extract_figure_image" =>
          LET n == call.input.figure_info.page_number
          IN  (IsNone(n) \/ OutOfRange(Val(n), call.input.pdf)) =>
                  /\ call.out.tag = "return"
                  /\ call.out.val = NoImage
                  /\ call.out.calls = <<>>

\* C12 witness: page 999 of a document of MaxPages pages.
C12_Witness ==
    /\ call.fn = "_extract_figure_image"
    /\ call.input.figure_info.page_number = Some(999)
    /\ call.input.pdf.opens /\ call.input.pdf.page_count = MaxPages
    /\ call.input.pdf.page.images # <<>>

\* The embedded raster images among the enumerated ones: those that
\* extract_image yields with a positive area.
Rasters(images) ==
    {k \in DOMAIN images :
        images[k].extract = "ok" /\ images[k].width * images[k].height > 0}

Area(img) == img.width * img.height

\* The locator ran on a page in range of a PDF that was read, every image of
\* which can be read and which can be rendered.
LocatorRan ==
    /\ call.fn = "_extract_figure_image"
    /\ call.input.pdf.opens
    /\ ~IsNone(call.input.figure_info.page_number)
    /\ ~OutOfRange(Val(call.input.figure_info.page_number), call.input.pdf)
    /\ \A k \in DOMAIN call.input.pdf.page.images :
          call.input.pdf.page.images[k].extract # "raise"
    /\ call.input.pdf.page.render.tag = "return"

\* A caption "Figure {label}" or "Fig. {label}" is on the page.
CaptionOnPage(page, label) ==
    \E k \in DOMAIN page.text :
        \/ OccursIn(<<"Figure", " ">> \o label, page.text[k])
        \/ OccursIn(<<"Fig", ".", " ">> \o label, page.text[k])

\* C13 (as claimed): on a page in range, an embedded raster image is
\* returned by Strategy A and Strategy B is not run; without one, a hint with
\* a figure label whose caption is on the page gets a rendered image from
\* Strategy B; when neither applies the result is (None, None), not raised.
C13_StrategyOrder ==
    LocatorRan =>
        LET page   == call.input.pdf.page
            label  == call.input.figure_info.figure_number
            byA    == Rasters(page.images) # {}
            byB    == ~byA /\ StrTruthy(label) /\ CaptionOnPage(page, Val(label))
        IN  /\ call.out.tag = "return"
            /\ byA => /\ call.out.calls = <<"A">>
                      /\ ~IsNone(call.out.val[1])
                      /\ Val(call.out.val[1]).source = "embedded"
            /\ byB => /\ call.out.calls = <<"A", "B">>
                      /\ ~IsNone(call.out.val[1])
                      /\ Val(call.out.val[1]).source = "rendered"
                      /\ call.out.val[2] = Some(<<"image/", "png">>)
            /\ (~byA /\ ~StrTruthy(label)) => call.out.val = NoImage

\* C20: Strategy A returns the embedded raster image of maximal area
\* width x height among the images enumerated on the page, the first
\* enumerated among those of maximal area, with the mime type of its format;
\* it returns (None, None) only when the page has no embedded raster image
\* (an enumerated image that extract_image yields with a positive area).
C20_LargestFirst ==
    (/\ call.fn = "_extract_largest_raster_image"
     /\ \A k \in DOMAIN call.input : call.input[k].extract # "raise") =>
        LET images == call.input
        IN  /\ call.out.tag = "return"
            /\ call.out.val = NoImage <=> Rasters(images) = {}
            /\ Rasters(images) # {} =>
                  LET k == Val(call.out.val[1]).xref
                  IN  /\ k \in Rasters(images)
                      /\ Val(call.out.val[1]).source = "embedded"
                      /\ \A j \in Rasters(images) :
                            /\ Area(images[j]) <= Area(images[k])
                            /\ Area(images[j]) = Area(images[k]) => k <= j
                      /\ call.out.val[2] = Some(<<"image/", images[k].ext>>)

\* C20 witness: two images of equal, maximal area; the first is returned.
C20_Witness ==
    /\ call.fn = "_extract_largest_raster_image"
    /\ Len(call.input) >= 2
    /\ Rasters(call.input) = DOMAIN call.input
    /\ Area(call.input[1]) = Area(call.input[2])
    /\ call.input[1].ext # call.input[2].ext
    /\ \A j \in DOMAIN call.input : Area(call.input[j]) <= Area(call.input[1])
    /\ Val(call.out.val[1]).xref = 1

\* A reply wrapped in one leading and one trailing code fence.
Fenced(lines) ==
    /\ Len(lines) > 2
    /\ Head(lines).kind \in {"fence", "fence_lang"}
    /\ lines[Len(lines)].kind = "fence"

\* The FigureInfo holding the fields of a JSON object.
FigureInfoOf(obj) ==
    FigureInfo(IF "figure_number" \in obj.keys THEN obj.figure_number ELSE None,
               IF "page_number" \in obj.keys THEN obj.page_number ELSE None,
               IF "description" \in obj.keys THEN obj.description ELSE None,
               IF "reason" \in obj.keys THEN obj.reason ELSE None)

\* What a reply should give: the FigureInfo of the JSON object that the reply
\* is, once its fence is taken off; None when that is no JSON object.
Expected(lines) ==
    LET text   == strip(lines)
        body   == IF Fenced(text) THEN SubSeq(text, 2, Len(text) - 1) ELSE text
        parsed == json_loads(body)
    IN  IF parsed.tag = "return" /\ parsed.val.type = "dict"
        THEN Some(FigureInfoOf(parsed.val.obj))
        ELSE None

\* C17: identify_important_figure never raises. A reply inside one leading
\* and one trailing fence is unwrapped; a reply that is one JSON object gives
\* the FigureInfo of its fields; a parse failure or an error of the generation
\* call gives None; so do fenced replies of one or two lines.
C17_IdentifyNeverRaises ==
    call.fn = "identify_important_figure" =>
        /\ call.out.tag = "return"
        /\ call.input.tag = "raise" => call.out.val = None
        /\ call.input.tag = "return" =>
              LET text == strip(call.input.val)
              IN  /\ Fenced(text) => call.out.val = Expected(call.input.val)
                  /\ ~startswith_fence(text) => call.out.val = Expected(call.input.val)
                  /\ (startswith_fence(text) /\ Len(text) <= 2) => call.out.val = None

\* C17 witness: the example object inside ```json ... ``` gives its FigureInfo.
C17_Witness ==
    /\ call.fn = "identify_important_figure"
    /\ call.input.tag = "return"
    /\ Len(call.input.val) = 3
    /\ call.input.val[1].kind = "fence_lang"
    /\ call.input.val[2] = Line("object", ExampleObject)
    /\ call.input.val[3].kind = "fence"
    /\ call.out.val = Some(FigureInfoOf(ExampleObject))

\* The fetch of task i went through fetch_arxiv for an arXiv URL, and is over.
ArxivFetched(i) ==
    /\ i \in Eligible
    /\ is_arxiv_url(Val(todoist[i].url))
    /\ ~IsNone(co[i].fetch_in)
    /\ "abs" \in DOMAIN Val(co[i].fetch_in)

\* The abstract page gave no human title: it cannot be retrieved, or it
\* carries no title metadata.
NoHumanTitle(net) ==
    \/ net.abs.tag = "raise"
    \/ ~(net.abs.val.status \in 200..299)
    \/ IsNone(net.abs.val.meta_title)
    \/ Val(net.abs.val.meta_title) = EmptyTitle

\* The PDF is retrieved, and declared a PDF.
PdfRetrieved(net) ==
    /\ net.pdf.tag = "return"
    /\ net.pdf.val.status \in 200..299
    /\ Contains(net.pdf.val.content_type, "application/pdf")

\* C18 (as claimed): without a human title from the abstract page (no title
\* metadata, or the page cannot be retrieved) the title is "arXiv:{id}" and
\* the PDF is retrieved; the fetch fails only for the PDF retrieval itself,
\* with reason "response is not a PDF" when a retrieved response is no PDF.
C18_TitleFallback ==
    \A i \in Ids :
        (ArxivFetched(i) /\ NoHumanTitle(Val(co[i].fetch_in))) =>
            LET net == Val(co[i].fetch_in)
            IN  /\ PdfRetrieved(net) =>
                      /\ ~IsNone(co[i].fetched)
                      /\ Val(co[i].fetched).type = "ArxivContent"
                      /\ Val(co[i].fetched).title = Title("arXiv:", Val(todoist[i].url).key)
                /\ (net.pdf.tag = "return" /\ net.pdf.val.status \in 200..299
                    /\ ~Contains(net.pdf.val.content_type, "application/pdf")) =>
                      co[i].ret = Some(Return(FailedArticle(Val(todoist[i].url),
                                                            <<"response is not a PDF">>)))

\* The fetch of task i failed and the task ended as a FailedArticle with
\* `reason`.
ArxivFailed(i, reason) ==
    /\ IsNone(co[i].fetched)
    /\ co[i].ret = Some(Return(FailedArticle(Val(todoist[i].url), reason)))

\* C18 (amended): when the abstract page is retrieved and carries no title
\* metadata, the title is "arXiv:{id}" and the PDF is retrieved: the fetch
\* then fails only for the PDF retrieval itself ("HTTP {status}", a transport
\* reason, or "response is not a PDF"). When the abstract page itself cannot
\* be retrieved, the task fails with that retrieval's reason ("HTTP {status}"
\* or "timeout"), whatever the PDF request would answer.
C18_TitleFallbackOrFailure ==
    \A i \in Ids :
        ArxivFetched(i) =>
            LET net    == Val(co[i].fetch_in)
                absOK  == net.abs.tag = "return" /\ net.abs.val.status \in 200..299
                noMeta == absOK /\ NoHumanTitle(net)
            IN  /\ (noMeta /\ PdfRetrieved(net)) =>
                      /\ ~IsNone(co[i].fetched)
                      /\ Val(co[i].fetched).type = "ArxivContent"
                      /\ Val(co[i].fetched).title = Title("arXiv:", Val(todoist[i].url).key)
                /\ (noMeta /\ net.pdf.tag = "return" /\ net.pdf.val.status \in 200..299
                    /\ ~Contains(net.pdf.val.content_type, "application/pdf")) =>
                      ArxivFailed(i, <<"response is not a PDF">>)
                /\ (noMeta /\ net.pdf.tag = "return"
                    /\ ~(net.pdf.val.status \in 200..299)) =>
                      ArxivFailed(i, <<"HTTP ", StatusText(net.pdf.val.status)>>)
                /\ (noMeta /\ net.pdf.tag = "raise") =>
                      /\ IsNone(co[i].fetched)
                      /\ Val(co[i].ret).tag = "return"
                      /\ Val(co[i].ret).val.type = "FailedArticle"
                /\ (net.abs.tag = "return" /\ ~absOK) =>
                      ArxivFailed(i, <<"HTTP ", StatusText(net.abs.val.status)>>)
                /\ (net.abs.tag = "raise"
                    /\ "TimeoutException" \in Bases(net.abs.val.cls)) =>
                      ArxivFailed(i, <<"timeout">>)

\* C18 witness: the abstract page is retrieved without title metadata, the
\* PDF is retrieved, and the paper is titled "arXiv:1".
C18_Witness ==
    /\ ArxivFetched(1)
    /\ Val(co[1].fetch_in).abs.tag = "return"
    /\ Val(co[1].fetch_in).abs.val.status = 200
    /\ IsNone(Val(co[1].fetch_in).abs.val.meta_title)
    /\ PdfRetrieved(Val(co[1].fetch_in))
    /\ ~IsNone(co[1].fetched)
    /\ Val(co[1].fetched).title = Title("arXiv:", 1)

\* The fetch of ordinary task i returned an Article.
Extracted(i) ==
    /\ OrdinaryFetched(i)
    /\ ~IsNone(co[i].fetched)
    /\ Val(co[i].fetched).type = "Article"

HasMetaTitle(page) == ~IsNone(page.meta_title) /\ Val(page.meta_title) # EmptyTitle

\* The readability extractor derives a title from the page.
HasSecondaryTitle(page) ==
    page.readability.tag = "return" /\ page.readability.val.title # EmptyTitle

\* The primary extraction reaches 50 words.
PrimaryReaches(page) == ~IsNone(page.primary) /\ Val(page.primary).words >= 50

\* C19 (as claimed): the title of an Article is the metadata title when there
\* is one, otherwise the readability extractor's derived title, otherwise the
\* empty string, whether or not the primary extraction reaches 50 words.
C19_TitleChain ==
    \A i \in Ids :
        Extracted(i) =>
            LET page == Val(co[i].fetch_in).val.page
            IN  Val(co[i].fetched).title =
                    IF HasMetaTitle(page) THEN Val(page.meta_title)
                    ELSE IF HasSecondaryTitle(page) THEN page.readability.val.title
                    ELSE EmptyTitle

\* C19 (amended): the title of an Article is the metadata title when there is
\* one; otherwise, when the primary extraction fell short of 50 words, the
\* readability extractor's derived title; otherwise the empty string. When
\* the primary extraction reaches 50 words the readability extractor is not
\* consulted.
C19_TitleResolution ==
    \A i \in Ids :
        Extracted(i) =>
            LET page == Val(co[i].fetch_in).val.page
            IN  Val(co[i].fetched).title =
                    IF HasMetaTitle(page) THEN Val(page.meta_title)
                    ELSE IF ~PrimaryReaches(page) /\ HasSecondaryTitle(page)
                    THEN page.readability.val.title
                    ELSE EmptyTitle

\* C19 witness: no metadata title, a primary extraction of 49 words, and the
\* Article carries the readability extractor's title.
C19_Witness ==
    /\ Extracted(1)
    /\ ~HasMetaTitle(Val(co[1].fetch_in).val.page)
    /\ ~PrimaryReaches(Val(co[1].fetch_in).val.page)
    /\ HasSecondaryTitle(Val(co[1].fetch_in).val.page)
    /\ Val(co[1].fetched).title = Val(co[1].fetch_in).val.page.readability.val.title

\* C14 (as claimed): in a dry run no email is sent, no Todoist task is
\* written, nothing is uploaded to object storage and no file is written,
\* whatever the task outcomes and whichever optional collaborators are
\* configured.
C14_DryRunNoSideEffects ==
    args.dry_run =>
        /\ effects.email = 0
        /\ effects.todoist_write = 0
        /\ effects.upload = 0
        /\ effects.file = 0

\* C14 (amended): in a dry run no email is sent and no Todoist task is
\* written, whatever the task outcomes and whichever optional collaborators
\* are configured, and a dry run that returns reports email_sent = false; a
\* run that is not a dry run writes no file.
C14_DryRunSkipsEmailAndTasks ==
    /\ args.dry_run =>
          /\ effects.email = 0
          /\ effects.todoist_write = 0
          /\ ~IsNone(result) => ~Val(result).email_sent /\ Val(result).dry_run
    /\ ~args.dry_run => effects.file = 0

\* C14 witness: a dry run over an empty project, with storage and TTS
\* configured, has returned: the digest was composed and written to a file,
\* no email was sent.
C14_Witness ==
    /\ self.storage /\ self.tts_client
    /\ args.dry_run /\ phase = "done" /\ ~Val(result).skipped
    /\ effects.compose = 1 /\ effects.file = 1 /\ effects.email = 0

\* run is past the truncation: processed_articles and failed_articles hold
\* what the final counts are taken from.
Counted == phase \in {"publish", "compose", "send"}

\* C15 (as claimed): in a run that is not skipped, with N > 0 tasks found and
\* whether or not max is configured, the counts of processed and failed
\* articles add up to N.
C15_CountsAddUp ==
    (Counted /\ Len(tasks_with_urls) > 0 /\ (IsNone(args.max) \/ Val(args.max) >= 0)) =>
        Len(processed_articles) + Len(failed_articles) = Len(tasks_with_urls)

\* C15 (amended): in a run that is not skipped, with N > 0 tasks found of
\* which s succeeded, the failed count is N - s; the processed count is s
\* without max and min(max, s) with max >= 0; so the counts add up to N
\* exactly when max is unset or at least s, and fall short of N by s - max
\* otherwise.
C15_CountsAfterTruncation ==
    (Counted /\ Len(tasks_with_urls) > 0 /\ (IsNone(args.max) \/ Val(args.max) >= 0)) =>
        LET N == Len(tasks_with_urls)
            s == Len(Successes)
            k == IF IsNone(args.max) THEN s ELSE Min2(Val(args.max), s)
        IN  /\ Len(failed_articles) = N - s
            /\ Len(processed_articles) = k
            /\ LoggedCounts.processed = k /\ LoggedCounts.failed = N - s
            /\ Len(processed_articles) + Len(failed_articles) = N - (s - k)
            /\ (Len(processed_articles) + Len(failed_articles) = N)
                  <=> (IsNone(args.max) \/ Val(args.max) >= s)

\* C15 witness: two tasks found, both succeeded, max = 1: one processed, none
\* failed.
C15_Witness ==
    /\ Counted /\ args.max = Some(1)
    /\ Len(tasks_with_urls) = 2 /\ Len(Successes) = 2
    /\ Len(processed_articles) = 1 /\ Len(failed_articles) = 0

\* C16 (as claimed): compose_digest accepts the call that hands it the failed
\* list as failed_articles: whenever run makes that call, the body of
\* compose_digest runs (and renders the digest with its failures footnote).
C16_FailedListAccepted ==
    [][(phase = "compose" /\ phase' # "compose") =>
          effects'.compose = effects.compose + 1]_vars

\* The clip rectangle the claim's formula gives for a caption whose top edge
\* is at c on a page with bounds p.
ClaimedClip(p, c) ==
    LET H   == p.y1 - p.y0
        low == c - (2 * H) \div 5
    IN  Rect(p.x0 + 20, IF p.y0 >= low THEN p.y0 ELSE low, p.x1 - 20, c - 5)

\* A non-empty region inside the page p.
NonEmptyInside(r, p) ==
    /\ p.y0 <= r.y0 /\ r.y0 < r.y1 /\ r.y1 <= p.y1
    /\ r.x0 < r.x1

\* C21 (as claimed): the clip rectangle is left = x0 + 20, right = x1 - 20,
\* top = max(y0, c - 0.4 H), bottom = c - 5, and for every caption position on
\* the page it is a non-empty region inside the page.
C21_ClipRegionNonEmpty ==
    call.fn = "EstimateRegion" =>
        /\ call.out = ClaimedClip(call.input.page_rect, call.input.caption_rect.y0)
        /\ NonEmptyInside(call.out, call.input.page_rect)

\* C21 (amended): the clip rectangle is left = x0 + 20, right = x1 - 20,
\* top = max(y0, c - 0.4 H), bottom = c - 5. Its top is never above the page
\* and its bottom never below it; it is non-empty exactly when the caption's
\* top is more than 5 below the page's top (c - 5 > y0), the page is more
\* than 12.5 high (0.4 H > 5) and more than 40 wide.
C21_ClipRegion ==
    call.fn = "EstimateRegion" =>
        LET p == call.input.page_rect
            c == call.input.caption_rect.y0
            r == call.out
        IN  /\ r = ClaimedClip(p, c)
            /\ p.y0 <= r.y0 /\ r.y1 <= p.y1
            /\ (r.y0 < r.y1) <=> (c - 5 > p.y0 /\ 2 * (p.y1 - p.y0) > 25)
            /\ (r.x0 < r.x1) <=> (p.x1 - p.x0 > 40)
            /\ NonEmptyInside(r, p) <=>
                  (c - 5 > p.y0 /\ 2 * (p.y1 - p.y0) > 25 /\ p.x1 - p.x0 > 40)

\* C21 witness: a caption 3 below the top of a page 100 high and wide: the
\* region's bottom is above its top.
C21_Witness ==
    /\ call.fn = "EstimateRegion"
    /\ call.input.page_rect = Rect(0, 0, 100, 100)
    /\ call.input.caption_rect.y0 = 3
    /\ call.out.y0 = 0 /\ call.out.y1 = -2

\* ------------------------------------------------------------------- C22

\* The minimum threshold, if configured, is reached by the eligible tasks of
\* the project.
ThresholdPassed == IsNone(args.min) \/ Len(EligibleSeq) >= Val(args.min)

\* Every eligible task's fetch/summarize sequence has finished.
AllTasksFinished == \A k \in 1..Len(EligibleSeq) : co[EligibleSeq[k].id].pc = "done"

\* Something was published or written: a digest composed, a podcast or web
\* page generated, an email sent, a dry-run file or a Todoist task written.
Delivered ==
    \/ effects.compose > 0
    \/ effects.upload > 0
    \/ effects.email > 0
    \/ effects.file > 0
    \/ effects.todoist_write > 0
    \/ \E k \in DOMAIN run_log :
          run_log[k].msg \in {"Podcast generated", "Failed to generate podcast",
                              "Web digest page uploaded", "Failed to generate web page"}

\* The steps from one phase of run to the next.
PhaseSteps ==
    {<<"idle", "intake">>, <<"intake", "threshold">>, <<"intake", "raised">>,
     <<"threshold", "done">>, <<"threshold", "empty">>, <<"threshold", "fanout">>,
     <<"empty", "done">>, <<"empty", "raised">>,
     <<"fanout", "truncate">>, <<"fanout", "raised">>,
     <<"truncate", "publish">>, <<"publish", "compose">>,
     <<"compose", "send">>, <<"compose", "raised">>,
     <<"send", "update">>, <<"send", "done">>, <<"send", "raised">>,
     <<"update", "done">>}

Terminated == phase \in {"done", "raised"}

\* The coroutine of task i was created and has not finished.
Pending(i) == co[i].pc \notin {"none", "done"}

Calls == effects.todoist_calls

CallsOf(op, ok) == SelectSeq(Calls, LAMBDA c : c.op = op /\ c.ok = ok)

\* A run that was neither dry nor skipped has returned.
ReturnedLive ==
    /\ phase = "done"
    /\ ~IsNone(result)
    /\ ~Val(result).dry_run
    /\ ~Val(result).skipped

WrittenIds == {Calls[k].task_id : k \in DOMAIN Calls}

\* The successes that the max limit keeps: processed[:max] of the successes
\* in input order.
KeptSuccesses == IF IsNone(args.max) THEN Successes ELSE SliceTo(Successes, Val(args.max))

Responded == phase = "done" /\ ~IsNone(result)

\* The status by the claimed precedence.
ClaimedStatus(r) ==
    CASE r.skipped -> "skipped"
      [] ~r.skipped /\ r.articles_processed = 0 /\ r.tasks_found > 0 -> "failed"
      [] ~r.skipped /\ ~(r.articles_processed = 0 /\ r.tasks_found > 0)
            /\ (r.articles_failed > 0 \/ r.tasks_update_failed > 0) -> "partial_success"
      [] OTHER -> "success"

C30_SurfacedAtMostMax ==
    (Surfaced /\ ~IsNone(args.max)) =>
        /\ Len(processed_articles) <= Max2(Val(args.max), 0)
        /\ LoggedCounts.processed <= Max2(Val(args.max), 0)

\* ------------------------------------------------------------------- C27

Logged(msg) == \E k \in DOMAIN run_log : run_log[k].msg = msg

\* The podcast or the web page of this run failed.
PublishFailed == Logged("Failed to generate podcast") \/ Logged("Failed to generate web page")

Produced(i) ==
    /\ co[i].pc = "done"
    /\ Val(co[i].ret).tag = "return"
    /\ Val(co[i].ret).val.type = "ProcessedArticle"

\* C28: every ProcessedArticle a task coroutine returns has image_data
\* exactly when it has image_mime_type, and an image_caption only with
\* image_data; one produced by summarize (the HTML path, no figure step) has
\* none of the three.
C28_ImageFields ==
    \A i \in Ids :
        Produced(i) =>
            LET a == Val(co[i].ret).val
            IN  /\ IsNone(a.image_data) <=> IsNone(a.image_mime_type)
                /\ ~IsNone(a.image_caption) => ~IsNone(a.image_data)
                /\ IsNone(co[i].fig_in) =>
                      /\ IsNone(a.image_data)
                      /\ IsNone(a.image_mime_type)
                      /\ IsNone(a.image_caption)

\* A paper whose figure was described by the model but could not be
\* extracted: the article has neither image nor caption.
C28_Witness ==
    /\ Produced(1)
    /\ ~IsNone(co[1].fig_in)
    /\ Val(co[1].fig_in).identify.tag = "return"
    /\ ~IsNone(Val(co[1].fig_in).identify.val)
    /\ StrTruthy(Val(Val(co[1].fig_in).identify.val).description)
    /\ ~IsNone(Val(Val(co[1].fig_in).identify.val).page_number)
    /\ IsNone(Val(co[1].ret).val.image_data)
    /\ IsNone(Val(co[1].ret).val.image_mime_type)
    /\ IsNone(Val(co[1].ret).val.image_caption)

====
